---- MODULE Spec2Model ----
(***************************************************************************)
(* Side-tone mixer (TeensyAudioTone) and MIDI control decoder              *)
(* (TeensyUSBAudioMidi) of the TeensyWinkeyEmulator, as state machines.    *)
(*                                                                         *)
(*   SpecDecoder : the host sends control messages, midi() drains them.    *)
(*   SpecPair    : midi() run on SET_ACCUM(l), COMBINE(h) for every 7-bit  *)
(*                 l and h.                                                *)
(*   SpecMixer   : key events (setTone) interleaved with audio cycles      *)
(*                 (update), one step per line group / per sample.         *)
(*   SpecMute    : SpecMixer of the stock build with the PTT line driven.  *)
(*   SpecControl : sidetonevolume, key and ptt called in any order.        *)
(*   SpecSpeed   : cwspeed called with every speed of Speeds.              *)
(*   SpecPitch   : sidetonefrequency called with every frequency of Freqs. *)
(*   SpecDenoise : analogDenoise called with samples of Raws.              *)
(*   SpecPtt     : key and ptt under every setting of their options.       *)
(*   SpecSetters : the four setters called in any order, with repeats.     *)
(*   SpecPots    : loop() calling pots(), in both builds.                  *)
(*   SpecHang    : cwspeed and setHangTime called in any order.            *)
(*   SpecKey     : key of both variants and sidetonevolume, in any order.  *)
(***************************************************************************)
EXTENDS Integers, Sequences, FiniteSets, TLC

VARIABLES
    \* ---- control decoder (TeensyUSBAudioMidi) ----
    inq,            \* inbound messages pending in the USB MIDI transport
    arrived,        \* number of messages the host has sent so far
    pc,             \* "idle" | "midi": whether midi() is executing its loop
    lsb_data,       \* static uint lsb_data of midi()
    frequency,      \* frequency of the side tone oscillator (sine.frequency)
    sine_level,     \* amplitude of the side tone oscillator, <<num, den>>
    volume,         \* codec master volume, <<num, den>>
    speed,          \* value last handed to speed_set (0: never)
    sent,           \* outbound messages emitted by the latest step
    lastSet,        \* payload of the most recent SET_ACCUM processed
    lastKind,       \* kind of the latest message consumed by midi()
    midi_chan,      \* outbound channel, negative if disabled
    midi_pitch,     \* controller for pitch reports, negative if disabled
    midi_speed,     \* controller for speed reports, negative if disabled
    codec,          \* "none" | "wm8960" | "sgtl5000"
    midi_cw,        \* note for key notifications, negative if disabled
    midi_ptt,       \* note for PTT notifications, negative if disabled
    mute_on_ptt,    \* 1 iff the build mutes the received audio during PTT
    voltab,         \* number of entries of VolTab in the build: 32 | 21
    volIndex,       \* index of the latest read of VolTab, -1 if none
    op,             \* the latest call of a controller operation and its argument
    again,          \* TRUE iff the latest call was a setter repeating the call before it
    \* ---- analog inputs (pots, analogDenoise) ----
    dl1ycf,         \* TRUE iff the build defines DL1YCF_POTS
    pins,           \* Pin_SideToneFrequency, .. of the four lines, negative if disabled
    Analog,         \* Analog_SideFreq, ..: the low-passed reading of each line
    last,           \* last_sidefreq, ..: the reading last reported for each line
    last_analog_read, \* unsigned long last_analog_read, <<high, low>> 16-bit halves
    last_analog_line, \* unsigned int last_analog_line
    millis,         \* the millisecond clock, <<high, low>> 16-bit halves
    elapsed,        \* milliseconds the clock has advanced in this behaviour
    dn,             \* the latest call of analogDenoise: arguments and result
    poll,           \* the latest call of pots(): what it did
    \* ---- side tone mixer (TeensyAudioTone) ----
    tone,           \* uint8_t tone
    windowindex,    \* uint8_t windowindex
    block_sidetone, \* static audio_block_t *block_sidetone: "NULL" | "block"
    blockSamples,   \* AUDIO_BLOCK_SAMPLES of the build
    upc,            \* position of update(): "idle","begin","test","branch","up","down"
    i,              \* loop counter of update()
    inputs,         \* blocks pending on the inputs: [sine, inl, inr], booleans
    block_inl,      \* TRUE iff receiveReadOnly(0) returned a block this cycle
    block_inr,      \* TRUE iff receiveReadOnly(1) returned a block this cycle
    tx,             \* transmissions of the latest cycle, each <<block, channel>>
    cycle,          \* outcome of the latest update(): "none","nomem","nosine","tone","pass"
    prevCycle,      \* outcome of the update() before the latest
    applied,        \* how the latest side tone sample was produced
    lastRead,       \* the latest read of window_table and the one before it
    offered,        \* the blocks that were pending when update() was entered
    released,       \* per input, the blocks update() has released this cycle
    mute,           \* the flag muteAudioIn() sets
    hangtime,       \* uint16_t hangtime, in units of 8 samples
    trail,          \* update() calls completed since the mute was lifted (capped)
    downs           \* cycles completed in a row with the key up throughout (capped)

decVars == <<inq, arrived, pc, lsb_data, frequency, sine_level, volume, speed,
             sent, lastSet, lastKind, midi_chan, midi_pitch, midi_speed, codec,
             midi_cw, midi_ptt, mute_on_ptt, voltab, volIndex, op, again,
             dl1ycf, pins, Analog, last, last_analog_read, last_analog_line,
             millis, elapsed, dn, poll>>
potVars == <<dl1ycf, pins, Analog, last, last_analog_read, last_analog_line,
             millis, elapsed, dn, poll>>
mixVars == <<tone, windowindex, block_sidetone, blockSamples, upc, i, inputs,
             block_inl, block_inr, tx, cycle, prevCycle, applied, lastRead,
             offered, released, mute, hangtime, trail, downs>>
relVars == <<offered, released>>
muteVars == <<mute, hangtime, trail>>
vars == <<decVars, mixVars>>

(***************************************************************************)
(* Bounds of the model                                                     *)
(***************************************************************************)
\* the host sends at most this many control messages in one behaviour
MaxArrivals == 4
\* update() calls after the mute is lifted are counted up to this many
MaxTrail == 2
\* sidetonefrequency is called with the multiples of 10 Hz up to MaxFreq
MaxFreq == 1300
\* cwspeed is called with speeds 0..MaxSpeed
MaxSpeed == 64
\* sidetonevolume is called with levels this far beyond both ends of 0..31
LevelMargin == 2

(***************************************************************************)
(* Integer helpers                                                         *)
(***************************************************************************)
RECURSIVE BitOr(_, _)
\* bitwise or of two naturals
BitOr(a, b) ==
    IF a = 0 THEN b
    ELSE IF b = 0 THEN a
    ELSE (IF a % 2 = 1 \/ b % 2 = 1 THEN 1 ELSE 0) + 2 * BitOr(a \div 2, b \div 2)

\* C integer division, truncating toward zero (b > 0)
CDiv(a, b) == IF a >= 0 THEN a \div b ELSE -((-a) \div b)

Clamp127(v) == IF v > 127 THEN 127 ELSE IF v < 0 THEN 0 ELSE v

(***************************************************************************)
(* Control decoder                                                         *)
(***************************************************************************)
\* the channel midi() listens on
midi_ctrl == 2
default_freq == 800
\* config.h: MY_TX_CHANNEL, MY_FREQ_CTRL, MY_SPEED_CTRL
MY_TX_CHANNEL == 1
MY_FREQ_CTRL == 4
MY_SPEED_CTRL == 3
\* config.h: MY_KEYDOWN_NOTE, MY_CWPTT_NOTE; config.keyershield.h: MY_MUTE_OPTION
MY_KEYDOWN_NOTE == 1
MY_CWPTT_NOTE == 2
MY_MUTE_OPTION == 1

\* <<midi_chan, midi_pitch, midi_speed, codec>> of the builds explored
Configs ==
    { <<MY_TX_CHANNEL, MY_FREQ_CTRL, MY_SPEED_CTRL, "sgtl5000">>,
      <<-1, MY_FREQ_CTRL, MY_SPEED_CTRL, "wm8960">>,
      <<MY_TX_CHANNEL, -1, -1, "none">> }

CC(chan, d1, d2) == [type |-> "ControlChange", chan |-> chan, d1 |-> d1, d2 |-> d2]
NoteOn(chan, d1, d2) == [type |-> "NoteOn", chan |-> chan, d1 |-> d1, d2 |-> d2]

\* usbMIDI.sendNoteOff(note, velocity, channel)
NoteOff(chan, d1, d2) == [type |-> "NoteOff", chan |-> chan, d1 |-> d1, d2 |-> d2]

\* the messages the host sends in SpecDecoder
HostMsgs ==
    { CC(midi_ctrl, 0, 3), CC(midi_ctrl, 0, 42),
      CC(midi_ctrl, 4, 20),
      CC(midi_ctrl, 5, 3),
      CC(midi_ctrl, 6, 3), CC(midi_ctrl, 6, 42),
      CC(midi_ctrl, 16, 42),
      CC(midi_ctrl, 7, 3),
      CC(midi_ctrl + 1, 6, 3),
      NoteOn(midi_ctrl, 6, 3) }

\* the filter with the channel test dropped
RecognizedAnyChannel(m) == m.type = "ControlChange"

\* line 85: the filter on message type and channel
Recognized(m) == m.type = "ControlChange" /\ m.chan = midi_ctrl

\* the combination with the payload shifted by a whole byte
CombineShift8(data, lsb) == BitOr(data * 256, lsb)

\* lines 102, 109, 115: (data << 7) | lsb_data; data is one byte, so the
\* shift cannot leave the 32-bit uint
Combine(data, lsb) == BitOr(data * 128, lsb)

\* the speed command treated as a combining command
SpeedArgCombined(data, lsb) == BitOr(data * 128, lsb)

\* line 97: the argument case 4 hands to cwspeed
SpeedArg(data, lsb) == data

\* a / b rounded to the nearest integer (b > 0)
RoundDiv(a, b) == (2 * a + b) \div (2 * b)

\* the wire value of the pitch report rounded to the nearest integer
PitchWireRounded(freq) == Clamp127(RoundDiv(127 * freq - 50500, 600))

\* line 323..325: wire value of the pitch report
PitchWire(freq) == Clamp127(CDiv(127 * freq - 50500, 600))

\* the wire value of the speed report rounded to the nearest integer
SpeedWireRounded(s) == Clamp127(RoundDiv(127 * s - 97, 59))

\* the wire value of the speed report without the offset
SpeedWireNoOffset(s) == Clamp127(CDiv(127 * s, 59))

\* line 344..346: wire value of the speed report
SpeedWire(s) == Clamp127(CDiv(127 * s - 97, 59))

\* which branch of the switch a message takes
Kind(m) ==
    IF ~Recognized(m) THEN "ignored"
    ELSE CASE m.d1 = 0 -> "set"
           [] m.d1 = 4 -> "speed"
           [] m.d1 = 5 -> "ampl"
           [] m.d1 = 6 -> "freq"
           [] m.d1 = 16 -> "vol"
           [] OTHER -> "ignored"

sidetonefrequency(freq) ==
    /\ frequency' = freq
    /\ sent' = IF midi_pitch >= 0 /\ midi_chan >= 0
               THEN << [ctl |-> midi_pitch, val |-> PitchWire(freq), chan |-> midi_chan] >>
               ELSE << >>

\* cwspeed() adding its argument to the speed
cwspeedRelative(s) ==
    /\ speed' = (speed + s) % 128
    /\ sent' = IF midi_speed >= 0 /\ midi_chan >= 0
               THEN << [ctl |-> midi_speed, val |-> SpeedWire(s), chan |-> midi_chan] >>
               ELSE << >>

\* cwspeed(speed): lines 330..349
cwspeed(s) ==
    /\ speed' = s
    /\ sent' = IF midi_speed >= 0 /\ midi_chan >= 0
               THEN << [ctl |-> midi_speed, val |-> SpeedWire(s), chan |-> midi_chan] >>
               ELSE << >>

\* lines 89..126: the switch on cmd
MidiSwitch(cmd, data) ==
    CASE cmd = 0 ->
           /\ lsb_data' = data
           /\ sent' = << >>
           /\ UNCHANGED <<frequency, sine_level, volume, speed>>
      [] cmd = 4 ->
           /\ cwspeed(SpeedArg(data, lsb_data))
           /\ UNCHANGED <<lsb_data, frequency, sine_level, volume>>
      [] cmd = 5 ->
           /\ lsb_data' = Combine(data, lsb_data)
           /\ sine_level' = <<lsb_data', 16384>>
           /\ sent' = << >>
           /\ UNCHANGED <<frequency, volume, speed>>
      [] cmd = 6 ->
           /\ lsb_data' = Combine(data, lsb_data)
           /\ sidetonefrequency(lsb_data')
           /\ UNCHANGED <<sine_level, volume, speed>>
      [] cmd = 16 ->
           /\ lsb_data' = Combine(data, lsb_data)
           /\ volume' = IF codec # "none" THEN <<lsb_data', 16384>> ELSE volume
           /\ sent' = << >>
           /\ UNCHANGED <<frequency, sine_level, speed>>
      [] OTHER ->
           /\ sent' = << >>
           /\ UNCHANGED <<lsb_data, frequency, sine_level, volume, speed>>

cfgVars == <<midi_chan, midi_pitch, midi_speed, codec,
             midi_cw, midi_ptt, mute_on_ptt, voltab>>

\* the host puts one more message on the transport
Arrive ==
    /\ arrived < MaxArrivals
    /\ \E m \in HostMsgs : inq' = Append(inq, m)
    /\ arrived' = arrived + 1
    /\ UNCHANGED <<pc, lsb_data, frequency, sine_level, volume, speed, sent,
                   lastSet, lastKind, cfgVars, potVars, again,
                   volIndex, op, mixVars>>

\* loop() calls midi()
MidiCall ==
    /\ pc = "idle"
    /\ pc' = "midi"
    /\ sent' = << >>
    /\ UNCHANGED <<inq, arrived, lsb_data, frequency, sine_level, volume, speed,
                   lastSet, lastKind, cfgVars, potVars, again,
                   volIndex, op, mixVars>>

\* one iteration of while (usbMIDI.read())
MidiRead ==
    /\ pc = "midi"
    /\ inq # << >>
    /\ LET m == Head(inq) IN
         /\ inq' = Tail(inq)
         /\ IF Recognized(m)
            THEN MidiSwitch(m.d1, m.d2)
            ELSE /\ sent' = << >>
                 /\ UNCHANGED <<lsb_data, frequency, sine_level, volume, speed>>
         /\ lastKind' = Kind(m)
         /\ lastSet' = IF Kind(m) = "set" THEN m.d2 ELSE lastSet
    /\ UNCHANGED <<arrived, pc, cfgVars, potVars, again,
                   volIndex, op, mixVars>>

\* midi() returning whether or not messages are pending
MidiReturnEarly ==
    /\ pc = "midi"
    /\ pc' = "idle"
    /\ sent' = << >>
    /\ UNCHANGED <<inq, arrived, lsb_data, frequency, sine_level, volume, speed,
                   lastSet, lastKind, cfgVars, potVars, again,
                   volIndex, op, mixVars>>

\* usbMIDI.read() returns false: midi() returns
MidiReturn ==
    /\ pc = "midi"
    /\ inq = << >>
    /\ pc' = "idle"
    /\ sent' = << >>
    /\ UNCHANGED <<inq, arrived, lsb_data, frequency, sine_level, volume, speed,
                   lastSet, lastKind, cfgVars, potVars, again,
                   volIndex, op, mixVars>>

\* the four analog lines, in the order of the DL1YCF switch
Lines == {"sidefreq", "sidevol", "mastervol", "speed"}

\* no call of analogDenoise yet; value and old are *value and *old as the
\* call found them, raw the sample it read (-1: none)
NoDenoise == [line |-> "none", raw |-> -1, value |-> 0, old |-> 0, ret |-> FALSE]
\* no call of pots() yet
NoPoll == [line |-> -1, eligible |-> FALSE, reads |-> {}, called |-> "none",
           recent |-> << >>, wrapped |-> FALSE, at |-> -1, gap |-> -1]

\* the analog part after construction: all filters and readings 0, the
\* clock at 0; no pin assigned
InitPotsIdle ==
    /\ dl1ycf = TRUE
    /\ pins = [l \in Lines |-> -1]
    /\ Analog = [l \in Lines |-> 0]
    /\ last = [l \in Lines |-> 0]
    /\ last_analog_read = <<0, 0>>
    /\ last_analog_line = 0
    /\ millis = <<0, 0>>
    /\ elapsed = 0
    /\ dn = NoDenoise
    /\ poll = NoPoll

InitParams ==
    /\ lsb_data = 0
    /\ frequency = default_freq
    /\ sine_level = <<2, 10>>
    /\ volume = <<8, 10>>
    /\ speed = 0
    /\ sent = << >>
    /\ lastSet = 0
    /\ lastKind = "none"
    /\ volIndex = -1
    /\ op = [name |-> "none", arg |-> 0]
    /\ again = FALSE

\* TeensyAudioTone.h line 31: AUDIO_SAMPLE_RATE_EXACT of the Teensy 4 core
AUDIO_SAMPLE_RATE_EXACT == 44100

\* TeensyAudioTone.h lines 56..61, for a whole number of milliseconds
milliseconds2count(ms) ==
    LET m == IF ms < 0 THEN 0 ELSE ms
        c == (((m * AUDIO_SAMPLE_RATE_EXACT) \div 1000) + 7) \div 8
    IN IF c > 65535 THEN 65535 ELSE c

\* no block pending on any input
NoBlocks == [sine |-> FALSE, inl |-> FALSE, inr |-> FALSE]
\* nothing released yet
NoReleases == [sine |-> 0, inl |-> 0, inr |-> 0]

\* no side tone sample produced yet
NoSample == [kind |-> "none", dir |-> "none", at |-> 0, idx |-> 0, w |-> 0,
             in |-> 0, out |-> 0]

InitMixerIdle ==
    /\ tone = 0
    /\ windowindex = 0
    /\ block_sidetone = "NULL"
    /\ upc = "idle"
    /\ i = 0
    /\ block_inl = FALSE
    /\ block_inr = FALSE
    /\ inputs = [sine |-> FALSE, inl |-> FALSE, inr |-> FALSE]
    /\ tx = << >>
    /\ cycle = "none"
    /\ prevCycle = "none"
    /\ applied = NoSample
    /\ lastRead = [idx |-> 0, dir |-> "none", prevIdx |-> 0, prevDir |-> "none"]
    /\ offered = NoBlocks
    /\ released = NoReleases
    /\ mute = 0
    /\ hangtime = milliseconds2count(6)
    /\ trail = MaxTrail
    /\ downs = 0

\* the keyer shield build: key and PTT notes enabled, mute on PTT, the
\* 32-entry volume table
InitShield ==
    /\ midi_cw = MY_KEYDOWN_NOTE
    /\ midi_ptt = MY_CWPTT_NOTE
    /\ mute_on_ptt = MY_MUTE_OPTION
    /\ voltab = 32

InitDecoder ==
    /\ inq = << >>
    /\ arrived = 0
    /\ pc = "idle"
    /\ InitParams
    /\ InitPotsIdle
    /\ \E c \in Configs :
         /\ midi_chan = c[1]
         /\ midi_pitch = c[2]
         /\ midi_speed = c[3]
         /\ codec = c[4]
    /\ InitShield
    /\ InitMixerIdle
    /\ blockSamples = 128

NextDecoder == Arrive \/ MidiCall \/ MidiRead \/ MidiReturn

SpecDecoder == InitDecoder /\ [][NextDecoder]_vars

(***************************************************************************)
(* SpecPair: midi() drains SET_ACCUM(l), COMBINE(h) for every 7-bit l, h   *)
(***************************************************************************)
\* command ids of the combining commands: amplitude, frequency, master volume
CombineIds == {5, 6, 16}

InitPair ==
    /\ \E l \in 0..127, h \in 0..127, k \in CombineIds :
         inq = << CC(midi_ctrl, 0, l), CC(midi_ctrl, k, h) >>
    /\ arrived = 2
    /\ pc = "idle"
    /\ InitParams
    /\ InitPotsIdle
    /\ midi_chan = MY_TX_CHANNEL
    /\ midi_pitch = MY_FREQ_CTRL
    /\ midi_speed = MY_SPEED_CTRL
    /\ codec = "sgtl5000"
    /\ InitShield
    /\ InitMixerIdle
    /\ blockSamples = 128

NextPair == MidiCall \/ MidiRead \/ MidiReturn

SpecPair == InitPair /\ [][NextPair]_vars

(***************************************************************************)
(* Claims about the control decoder                                        *)
(***************************************************************************)
\* the step is one iteration of midi()'s loop
IsMidiRead == pc = "midi" /\ inq # << >> /\ inq' = Tail(inq)

\* the head of the queue is a controller change on the control channel
\* with command id d1
HeadIs(d1) ==
    /\ inq # << >>
    /\ Head(inq).type = "ControlChange"
    /\ Head(inq).chan = midi_ctrl
    /\ Head(inq).d1 = d1

\* after the step, the operation of combining command id has received v
\* (amplitude and master volume as v/16384, frequency as v Hz)
ReceivedNext(id, v) ==
    CASE id = 5 -> sine_level' = <<v, 16384>>
      [] id = 6 -> frequency' = v
      [] id = 16 -> codec # "none" => volume' = <<v, 16384>>

\* the 14-bit value the operation of combining command id holds after the step
ValueNext(id) ==
    CASE id = 5 -> sine_level'[1]
      [] id = 6 -> frequency'
      [] id = 16 -> volume'[1]

\* C1: a SET_ACCUM with payload l immediately followed by a combining
\* command (amplitude, frequency, master volume) with payload h hands
\* h*128 + l to the matching operation, for every 7-bit l and h
C1_SetThenCombine ==
    [][\A id \in CombineIds :
         (IsMidiRead /\ lastKind = "set" /\ HeadIs(id))
           => ReceivedNext(id, Head(inq).d2 * 128 + lastSet)]_vars

\* C1 witness: SET_ACCUM(42) then the frequency command with payload 3 have
\* been consumed and the side tone frequency is 426
C1_Witness ==
    /\ inq = << >>
    /\ lastKind = "freq"
    /\ lastSet = 42
    /\ frequency = 426

\* C2 as claimed: every combining command with payload h hands over a value
\* whose high 7 bits are h and whose low 7 bits are the payload of the most
\* recent SET_ACCUM, also when combining commands follow each other
C2_EveryCombine ==
    [][\A id \in CombineIds :
         (IsMidiRead /\ HeadIs(id) /\ (id = 16 => codec # "none"))
           => /\ ValueNext(id) \div 128 = Head(inq).d2
              /\ ValueNext(id) % 128 = lastSet]_vars

\* C3 as claimed: the accumulator of the decoder is a 7-bit value after any
\* sequence of control messages
C3_AccumulatorSevenBit == lsb_data \in 0..127

\* C4 as claimed: after SET_ACCUM(l) the speed command with payload h hands
\* (h << 7) | l to the speed operation
C4_SpeedCombines ==
    [][(IsMidiRead /\ lastKind = "set" /\ HeadIs(4))
         => speed' = Head(inq).d2 * 128 + lastSet]_vars

\* C4 amended: the speed command is not a combining command; with payload h
\* it hands h itself to the speed operation, whatever the accumulator
\* holds, and leaves the accumulator as it was
C4_SpeedDirect ==
    [][(IsMidiRead /\ HeadIs(4))
         => /\ speed' = Head(inq).d2
            /\ lsb_data' = lsb_data]_vars

\* C4 witness: a speed command was consumed while the accumulator held a
\* non-zero SET_ACCUM payload, and the speed is the bare payload
C4_Witness ==
    /\ lastKind = "speed"
    /\ lastSet = 3
    /\ lsb_data = 3
    /\ speed = 20

\* C5: a message that is no controller change on the control channel, or
\* that carries an unknown command id, is taken off the transport and has
\* no effect: accumulator, frequency, amplitude, master volume and speed
\* stay as they were and nothing is sent
C5_IgnoredNoEffect ==
    [][(IsMidiRead /\ (\/ Head(inq).type # "ControlChange"
                       \/ Head(inq).chan # midi_ctrl
                       \/ Head(inq).d1 \notin {0, 4, 5, 6, 16}))
         => /\ UNCHANGED <<lsb_data, frequency, sine_level, volume, speed>>
            /\ sent' = << >>]_vars

\* C5 witness: an ignored message was consumed after the parameters had
\* been set remotely
C5_Witness ==
    /\ lastKind = "ignored"
    /\ inq = << >>
    /\ lsb_data # 0
    /\ frequency # default_freq

(***************************************************************************)
(* Side tone mixer: TeensyAudioTone                                        *)
(***************************************************************************)
WINDOW_TABLE_LENGTH == 128

\* the table with two neighbouring coefficients exchanged
window_table_swapped == <<
        318397,    1273398,    2864439,    5090574,    7950483,   11442471,   15564467,   20314026,
      25688331,   31684195,   38298062,   45526009,   53363751,   61806638,   70849664,   80487465,
      90714326,  101524182,  112910621,  124866892,  150460228,  137385902,  164082115,  178243486,
     192935941,  208150767,  223878941,  240111135,  256837722,  274048782,  291734109,  309883213,
     328485332,  347529432,  367004221,  386898147,  407199413,  427895979,  448975571,  470425686,
     492233605,  514386393,  536870912,  559673828,  582781618,  606180576,  629856827,  653796328,
     677984882,  702408144,  727051629,  751900723,  776940687,  802156673,  827533725,  853056793,
     878710740,  904480353,  930350348,  956305383,  982330065, 1008408960, 1034526600, 1060667498,
    1086816150, 1112957048, 1139074688, 1165153583, 1191178265, 1217133300, 1243003295, 1268772908,
    1294426855, 1319949923, 1345326975, 1370542961, 1395582925, 1420432019, 1445075504, 1469498766,
    1493687320, 1517626821, 1541303072, 1564702030, 1587809820, 1610612736, 1633097255, 1655250043,
    1677057962, 1698508077, 1719587669, 1740284235, 1760585501, 1780479427, 1799954216, 1818998316,
    1837600435, 1855749539, 1873434866, 1890645926, 1907372513, 1923604707, 1939332881, 1954547707,
    1969240162, 1983401533, 1997023420, 2010097746, 2022616756, 2034573027, 2045959466, 2056769322,
    2066996183, 2076633984, 2085677010, 2094119897, 2101957639, 2109185586, 2115799453, 2121795317,
    2127169622, 2131919181, 2136041177, 2139533165, 2142393074, 2144619209, 2146210250, 2147165251 >>

\* the rising half of the Hann window, scaled by 2^31; entry k of the C
\* array is window_table[k + 1]
window_table == <<
        318397,    1273398,    2864439,    5090574,    7950483,   11442471,   15564467,   20314026,
      25688331,   31684195,   38298062,   45526009,   53363751,   61806638,   70849664,   80487465,
      90714326,  101524182,  112910621,  124866892,  137385902,  150460228,  164082115,  178243486,
     192935941,  208150767,  223878941,  240111135,  256837722,  274048782,  291734109,  309883213,
     328485332,  347529432,  367004221,  386898147,  407199413,  427895979,  448975571,  470425686,
     492233605,  514386393,  536870912,  559673828,  582781618,  606180576,  629856827,  653796328,
     677984882,  702408144,  727051629,  751900723,  776940687,  802156673,  827533725,  853056793,
     878710740,  904480353,  930350348,  956305383,  982330065, 1008408960, 1034526600, 1060667498,
    1086816150, 1112957048, 1139074688, 1165153583, 1191178265, 1217133300, 1243003295, 1268772908,
    1294426855, 1319949923, 1345326975, 1370542961, 1395582925, 1420432019, 1445075504, 1469498766,
    1493687320, 1517626821, 1541303072, 1564702030, 1587809820, 1610612736, 1633097255, 1655250043,
    1677057962, 1698508077, 1719587669, 1740284235, 1760585501, 1780479427, 1799954216, 1818998316,
    1837600435, 1855749539, 1873434866, 1890645926, 1907372513, 1923604707, 1939332881, 1954547707,
    1969240162, 1983401533, 1997023420, 2010097746, 2022616756, 2034573027, 2045959466, 2056769322,
    2066996183, 2076633984, 2085677010, 2094119897, 2101957639, 2109185586, 2115799453, 2121795317,
    2127169622, 2131919181, 2136041177, 2139533165, 2142393074, 2144619209, 2146210250, 2147165251 >>

\* block lengths (AUDIO_BLOCK_SAMPLES) of the builds explored
BlockLengths == {48, 64, 128}

\* samples the side tone oscillator delivers
Samples == {-32767, 0, 32767}

\* key states handed to setTone
KeyStates == {0, 1}

\* multiply_32x32_rshift32(a, b): the upper 32 bits of the 64-bit product,
\* floor(a * b / 2^32), computed in pieces that fit 32 bits; |a| <= 65536
multiply_32x32_rshift32(a, b) ==
    LET bh == b \div 65536
        bl == b % 65536
        ah == a \div 256
        al == a % 256
        low == (ah * bl + ((al * bl) \div 256)) \div 256
    IN  (a * bh + low) \div 65536

\* the sample scaled without the one-bit pre-shift
ScaleSampleNoShift(s, w) == multiply_32x32_rshift32(s, w)

\* lines 79 and 91: multiply_32x32_rshift32((data[i]) << 1, coefficient)
ScaleSample(s, w) == multiply_32x32_rshift32(2 * s, w)

\* what a read of window_table[idx] can yield: the coefficient, or, outside
\* the array, whatever lies next to it in memory
TableValues(idx) ==
    IF idx \in 0..(WINDOW_TABLE_LENGTH - 1)
    THEN {window_table[idx + 1]}
    ELSE {0, 2147165251}

\* the ramp-up guard stopping half way up the table
RampUpGuardHalf(wi) == wi < WINDOW_TABLE_LENGTH \div 2

\* the ramp-up guard admitting the index one past the table
RampUpGuardInclusive(wi) == wi <= WINDOW_TABLE_LENGTH

\* line 78: the guard of the ramp-up branch
RampUpGuard(wi) == wi < WINDOW_TABLE_LENGTH

\* the ramp-down restarting from the top of the table
RampDownRestart(wi) == WINDOW_TABLE_LENGTH

\* line 87: the clamp before the ramp-down loop
RampDownClamp(wi) == IF wi > WINDOW_TABLE_LENGTH THEN WINDOW_TABLE_LENGTH ELSE wi

\* one more update() call has completed since the mute was lifted
TrailNext == IF trail < MaxTrail THEN trail + 1 ELSE trail

\* lines 109..111: the releases at the end of update()
ReleaseInputs ==
    [sine |-> 1, inl |-> IF block_inl THEN 1 ELSE 0,
     inr |-> IF block_inr THEN 1 ELSE 0]

\* the most cycles with the key up that are counted
MaxDowns == 4

\* a key-down ends the run of cycles with the key up; a key-up while
\* update() is running leaves the running cycle out of the count (-1)
DownsAtKey(state) ==
    IF state # 0 THEN 0
    ELSE IF tone = 0 THEN downs
    ELSE IF upc = "idle" THEN 0 ELSE -1

\* update() returns at line 64 or 68: no cycle to count
DownsSkipped == IF downs = -1 THEN 0 ELSE downs

\* update() returns from line 111: one more cycle with the key up, unless
\* the key is down or went up while the cycle was running
DownsNext ==
    IF tone # 0 \/ downs = -1 THEN 0
    ELSE IF downs < MaxDowns THEN downs + 1 ELSE downs

\* setTone() restarting the ramp
setToneRestarts ==
    /\ \E state \in KeyStates : tone' = state /\ downs' = DownsAtKey(state)
    /\ windowindex' = 0
    /\ UNCHANGED <<block_sidetone, blockSamples, upc, i, inputs,
                   block_inl, block_inr, tx, cycle, prevCycle, applied, lastRead>>
    /\ UNCHANGED <<decVars, relVars, muteVars>>

\* TeensyAudioTone.h line 46..48; key() calls it from the control cadence
setTone ==
    /\ \E state \in KeyStates : tone' = state /\ downs' = DownsAtKey(state)
    /\ UNCHANGED <<windowindex, block_sidetone, blockSamples, upc, i, inputs,
                   block_inl, block_inr, tx, cycle, prevCycle, applied, lastRead>>
    /\ UNCHANGED <<decVars, relVars, muteVars>>

\* the audio library starts a cycle: the upstream objects have transmitted
\* their blocks (or not), then update() is entered; a block that an earlier
\* update() left on an input is still pending there
AudioInterrupt ==
    /\ upc = "idle"
    /\ upc' = "begin"
    /\ \E s \in BOOLEAN, l \in BOOLEAN, r \in BOOLEAN :
         inputs' = [sine |-> inputs.sine \/ s, inl |-> inputs.inl \/ l,
                    inr |-> inputs.inr \/ r]
    /\ offered' = inputs'
    /\ released' = NoReleases
    /\ tx' = << >>
    /\ UNCHANGED <<tone, windowindex, block_sidetone, blockSamples, i,
                   block_inl, block_inr, cycle, prevCycle, applied, lastRead>>
    /\ UNCHANGED <<decVars, muteVars, downs>>

\* lines 62..64: allocate() fails, update() returns
UpdateNoMemory ==
    /\ upc = "begin"
    /\ block_sidetone = "NULL"
    /\ upc' = "idle"
    /\ cycle' = "nomem"
    /\ prevCycle' = cycle
    /\ UNCHANGED <<tone, windowindex, block_sidetone, blockSamples, i, inputs,
                   block_inl, block_inr, tx, applied, lastRead>>
    /\ trail' = TrailNext
    /\ downs' = DownsSkipped
    /\ UNCHANGED <<decVars, relVars, mute, hangtime>>

\* the missing tone block not noticed: update() carries on to line 73
UpdateNoSineFallsThrough ==
    /\ upc = "begin"
    /\ ~inputs.sine
    /\ block_sidetone' = "block"
    /\ block_inl' = inputs.inl
    /\ block_inr' = inputs.inr
    /\ inputs' = [sine |-> FALSE, inl |-> FALSE, inr |-> FALSE]
    /\ upc' = "test"
    /\ UNCHANGED <<tone, windowindex, blockSamples, i, tx, cycle, prevCycle,
                   applied, lastRead>>
    /\ UNCHANGED <<decVars, relVars, muteVars, downs>>

\* lines 62..68: block_sidetone is there (or allocated now), no tone block
\* on input 2, update() returns
UpdateNoSine ==
    /\ upc = "begin"
    /\ ~inputs.sine
    /\ block_sidetone' = "block"
    /\ upc' = "idle"
    /\ cycle' = "nosine"
    /\ prevCycle' = cycle
    /\ UNCHANGED <<tone, windowindex, blockSamples, i, inputs,
                   block_inl, block_inr, tx, applied, lastRead>>
    /\ trail' = TrailNext
    /\ downs' = DownsSkipped
    /\ UNCHANGED <<decVars, relVars, mute, hangtime>>

\* lines 62..71: the three receiveReadOnly calls
UpdateReceive ==
    /\ upc = "begin"
    /\ inputs.sine
    /\ block_sidetone' = "block"
    /\ block_inl' = inputs.inl
    /\ block_inr' = inputs.inr
    /\ inputs' = [sine |-> FALSE, inl |-> FALSE, inr |-> FALSE]
    /\ upc' = "test"
    /\ UNCHANGED <<tone, windowindex, blockSamples, i, tx, cycle, prevCycle,
                   applied, lastRead>>
    /\ UNCHANGED <<decVars, relVars, muteVars, downs>>

\* the pass-through branch with the two channels crossed
UpdatePassThroughCrossed ==
    /\ upc = "test"
    /\ ~(tone # 0 \/ windowindex # 0)
    /\ windowindex' = 0
    /\ tx' = (IF block_inl THEN << <<"inl", 1>> >> ELSE << >>)
             \o (IF block_inr THEN << <<"inr", 0>> >> ELSE << >>)
    /\ block_inl' = FALSE
    /\ block_inr' = FALSE
    /\ cycle' = "pass"
    /\ prevCycle' = cycle
    /\ applied' = NoSample
    /\ upc' = "idle"
    /\ released' = ReleaseInputs
    /\ trail' = TrailNext
    /\ downs' = DownsNext
    /\ UNCHANGED <<tone, block_sidetone, blockSamples, i, inputs, lastRead>>
    /\ UNCHANGED <<decVars, offered, mute, hangtime>>

\* line 73, false: lines 104..111, the pass-through branch and the releases
UpdatePassThrough ==
    /\ upc = "test"
    /\ ~(tone # 0 \/ windowindex # 0)
    /\ windowindex' = 0
    /\ tx' = (IF block_inl THEN << <<"inl", 0>> >> ELSE << >>)
             \o (IF block_inr THEN << <<"inr", 1>> >> ELSE << >>)
    /\ block_inl' = FALSE
    /\ block_inr' = FALSE
    /\ cycle' = "pass"
    /\ prevCycle' = cycle
    /\ applied' = NoSample
    /\ upc' = "idle"
    /\ UNCHANGED <<tone, block_sidetone, blockSamples, i, inputs, lastRead>>
    /\ released' = ReleaseInputs
    /\ trail' = TrailNext
    /\ downs' = DownsNext
    /\ UNCHANGED <<decVars, offered, mute, hangtime>>

\* line 73, true
UpdateTest ==
    /\ upc = "test"
    /\ (tone # 0 \/ windowindex # 0)
    /\ upc' = "branch"
    /\ UNCHANGED <<tone, windowindex, block_sidetone, blockSamples, i, inputs,
                   block_inl, block_inr, tx, cycle, prevCycle, applied, lastRead>>
    /\ UNCHANGED <<decVars, relVars, muteVars, downs>>

\* line 75, true: enter the ramp-up loop
UpdateBranchUp ==
    /\ upc = "branch"
    /\ tone # 0
    /\ upc' = "up"
    /\ i' = 0
    /\ UNCHANGED <<tone, windowindex, block_sidetone, blockSamples, inputs,
                   block_inl, block_inr, tx, cycle, prevCycle, applied, lastRead>>
    /\ UNCHANGED <<decVars, relVars, muteVars, downs>>

\* line 75, false: line 87, enter the ramp-down loop
UpdateBranchDown ==
    /\ upc = "branch"
    /\ tone = 0
    /\ windowindex' = RampDownClamp(windowindex)
    /\ upc' = "down"
    /\ i' = 0
    /\ UNCHANGED <<tone, block_sidetone, blockSamples, inputs,
                   block_inl, block_inr, tx, cycle, prevCycle, applied, lastRead>>
    /\ UNCHANGED <<decVars, relVars, muteVars, downs>>

\* the record of a table read at idx in direction dir
ReadAt(idx, dir) ==
    [idx |-> idx, dir |-> dir, prevIdx |-> lastRead.idx, prevDir |-> lastRead.dir]

\* lines 77..84: one iteration of the ramp-up loop
SampleUp ==
    /\ upc = "up"
    /\ i < blockSamples
    /\ \E s \in Samples :
         IF RampUpGuard(windowindex)
         THEN /\ \E w \in TableValues(windowindex) :
                   applied' = [kind |-> "table", dir |-> "up", at |-> windowindex,
                               idx |-> windowindex, w |-> w, in |-> s,
                               out |-> ScaleSample(s, w)]
              /\ lastRead' = ReadAt(windowindex, "up")
              /\ windowindex' = (windowindex + 1) % 256
         ELSE /\ applied' = [kind |-> "pass", dir |-> "up", at |-> windowindex,
                             idx |-> 0, w |-> 0, in |-> s, out |-> s]
              /\ UNCHANGED <<windowindex, lastRead>>
    /\ i' = i + 1
    /\ UNCHANGED <<tone, block_sidetone, blockSamples, upc, inputs,
                   block_inl, block_inr, tx, cycle, prevCycle>>
    /\ UNCHANGED <<decVars, relVars, muteVars, downs>>

\* the ramp-down loop stepping the index on every second sample only
SampleDownSlow ==
    /\ upc = "down"
    /\ i < blockSamples
    /\ \E s \in Samples :
         IF windowindex # 0
         THEN /\ \E w \in TableValues(windowindex - 1) :
                   applied' = [kind |-> "table", dir |-> "down", at |-> windowindex,
                               idx |-> windowindex - 1, w |-> w, in |-> s,
                               out |-> ScaleSample(s, w)]
              /\ lastRead' = ReadAt(windowindex - 1, "down")
              /\ windowindex' = IF i % 2 = 0 THEN (windowindex - 1) % 256
                                 ELSE windowindex
         ELSE /\ applied' = [kind |-> "zero", dir |-> "down", at |-> windowindex,
                             idx |-> 0, w |-> 0, in |-> s, out |-> 0]
              /\ UNCHANGED <<windowindex, lastRead>>
    /\ i' = i + 1
    /\ UNCHANGED <<tone, block_sidetone, blockSamples, upc, inputs,
                   block_inl, block_inr, tx, cycle, prevCycle>>
    /\ UNCHANGED <<decVars, relVars, muteVars, downs>>

\* lines 89..96: one iteration of the ramp-down loop
SampleDown ==
    /\ upc = "down"
    /\ i < blockSamples
    /\ \E s \in Samples :
         IF windowindex # 0
         THEN /\ \E w \in TableValues(windowindex - 1) :
                   applied' = [kind |-> "table", dir |-> "down", at |-> windowindex,
                               idx |-> windowindex - 1, w |-> w, in |-> s,
                               out |-> ScaleSample(s, w)]
              /\ lastRead' = ReadAt(windowindex - 1, "down")
              /\ windowindex' = (windowindex - 1) % 256
         ELSE /\ applied' = [kind |-> "zero", dir |-> "down", at |-> windowindex,
                             idx |-> 0, w |-> 0, in |-> s, out |-> 0]
              /\ UNCHANGED <<windowindex, lastRead>>
    /\ i' = i + 1
    /\ UNCHANGED <<tone, block_sidetone, blockSamples, upc, inputs,
                   block_inl, block_inr, tx, cycle, prevCycle>>
    /\ UNCHANGED <<decVars, relVars, muteVars, downs>>

\* the tone/ramp branch keeping the pass-through blocks
UpdateTransmitKeepsInputs ==
    /\ upc \in {"up", "down"}
    /\ i = blockSamples
    /\ tx' = << <<"sidetone", 0>>, <<"sidetone", 1>> >>
    /\ block_inl' = FALSE
    /\ block_inr' = FALSE
    /\ cycle' = "tone"
    /\ prevCycle' = cycle
    /\ upc' = "idle"
    /\ released' = [sine |-> 1, inl |-> 0, inr |-> 0]
    /\ trail' = TrailNext
    /\ downs' = DownsNext
    /\ UNCHANGED <<tone, windowindex, block_sidetone, blockSamples, i, inputs,
                   applied, lastRead>>
    /\ UNCHANGED <<decVars, offered, mute, hangtime>>

\* the side tone block sent to output 0 only
UpdateTransmitMono ==
    /\ upc \in {"up", "down"}
    /\ i = blockSamples
    /\ tx' = << <<"sidetone", 0>> >>
    /\ block_inl' = FALSE
    /\ block_inr' = FALSE
    /\ cycle' = "tone"
    /\ prevCycle' = cycle
    /\ upc' = "idle"
    /\ released' = ReleaseInputs
    /\ trail' = TrailNext
    /\ downs' = DownsNext
    /\ UNCHANGED <<tone, windowindex, block_sidetone, blockSamples, i, inputs,
                   applied, lastRead>>
    /\ UNCHANGED <<decVars, offered, mute, hangtime>>

\* lines 99..100 and 109..111: the side tone block goes to both outputs, the
\* input blocks are released
UpdateTransmit ==
    /\ upc \in {"up", "down"}
    /\ i = blockSamples
    /\ tx' = << <<"sidetone", 0>>, <<"sidetone", 1>> >>
    /\ block_inl' = FALSE
    /\ block_inr' = FALSE
    /\ cycle' = "tone"
    /\ prevCycle' = cycle
    /\ upc' = "idle"
    /\ UNCHANGED <<tone, windowindex, block_sidetone, blockSamples, i, inputs,
                   applied, lastRead>>
    /\ released' = ReleaseInputs
    /\ trail' = TrailNext
    /\ downs' = DownsNext
    /\ UNCHANGED <<decVars, offered, mute, hangtime>>

InitDecoderIdle ==
    /\ inq = << >>
    /\ arrived = 0
    /\ pc = "idle"
    /\ InitParams
    /\ InitPotsIdle
    /\ midi_chan = MY_TX_CHANNEL
    /\ midi_pitch = MY_FREQ_CTRL
    /\ midi_speed = MY_SPEED_CTRL
    /\ codec = "sgtl5000"
    /\ InitShield

\* TeensyAudioTone::muteAudioIn, which ptt() calls: the mute flag of the
\* mixer follows the PTT state
muteAudioIn(state) ==
    /\ mute' = state
    /\ trail' = IF mute # 0 /\ state = 0 THEN 0 ELSE trail
    /\ UNCHANGED hangtime

\* ptt() muting only when it also sends the note
pttCoupled ==
    \E state \in KeyStates :
      /\ IF mute_on_ptt # 0 /\ midi_ptt >= 0 /\ midi_chan >= 0
         THEN muteAudioIn(state)
         ELSE UNCHANGED muteVars
      /\ sent' = IF midi_ptt >= 0 /\ midi_chan >= 0
                 THEN << NoteOn(midi_chan, midi_ptt, IF state # 0 THEN 127 ELSE 0) >>
                 ELSE << >>
      /\ op' = [name |-> "ptt", arg |-> state]
      /\ again' = FALSE
      /\ UNCHANGED <<inq, arrived, pc, lsb_data, frequency, sine_level, volume,
                     speed, lastSet, lastKind, cfgVars, potVars, volIndex>>
      /\ UNCHANGED <<tone, windowindex, block_sidetone, blockSamples, upc, i,
                     inputs, block_inl, block_inr, tx, cycle, prevCycle, applied,
                     lastRead, relVars, downs>>

\* lines 360..371
ptt ==
    \E state \in KeyStates :
      /\ IF mute_on_ptt # 0
         THEN muteAudioIn(state)
         ELSE UNCHANGED muteVars
      /\ sent' = IF midi_ptt >= 0 /\ midi_chan >= 0
                 THEN << NoteOn(midi_chan, midi_ptt, IF state # 0 THEN 127 ELSE 0) >>
                 ELSE << >>
      /\ op' = [name |-> "ptt", arg |-> state]
      /\ again' = FALSE
      /\ UNCHANGED <<inq, arrived, pc, lsb_data, frequency, sine_level, volume,
                     speed, lastSet, lastKind, cfgVars, potVars, volIndex>>
      /\ UNCHANGED <<tone, windowindex, block_sidetone, blockSamples, upc, i,
                     inputs, block_inl, block_inr, tx, cycle, prevCycle, applied,
                     lastRead, relVars, downs>>

InitMixer ==
    /\ InitMixerIdle
    /\ blockSamples \in BlockLengths
    /\ InitDecoderIdle

NextMixer ==
    \/ setTone
    \/ AudioInterrupt
    \/ UpdateNoMemory
    \/ UpdateNoSine
    \/ UpdateReceive
    \/ UpdatePassThrough
    \/ UpdateTest
    \/ UpdateBranchUp
    \/ UpdateBranchDown
    \/ SampleUp
    \/ SampleDown
    \/ UpdateTransmit

SpecMixer == InitMixer /\ [][NextMixer]_vars

\* the mixer of the stock build (128 samples per block) with the PTT line
\* driven
InitMute ==
    /\ InitMixerIdle
    /\ blockSamples = 128
    /\ InitDecoderIdle

NextMute == NextMixer \/ ptt

SpecMute == InitMute /\ [][NextMute]_vars

(***************************************************************************)
(* Parameter controller                                                    *)
(***************************************************************************)
\* the 32-entry table with its first entry lost
VolTab32Shifted ==
    <<116, 135, 156, 181, 210, 244, 283, 328, 381, 442, 512, 595, 690, 800,
      928, 1077, 1250, 1450, 1682, 1951, 2264, 2626, 3047, 3535, 4101, 4758,
      5520, 6404, 7430, 8620, 10000, 10000>>

\* TeensyUSBAudioMidi/TeensyUSBAudioMidi.h lines 234..237: VolTab[32], in
\* units of 1/10000; C index k is VolTab32[k + 1]
VolTab32 ==
    <<0, 116, 135, 156, 181, 210, 244, 283, 328, 381, 442, 512, 595, 690, 800,
      928, 1077, 1250, 1450, 1682, 1951, 2264, 2626, 3047, 3535, 4101, 4758,
      5520, 6404, 7430, 8620, 10000>>

\* TeensyUSBAudioMidi.h lines 97..98: VolTab[21], in units of 1/10000
VolTab21 ==
    <<0, 126, 158, 200, 251, 316, 398, 501, 631, 794, 1000, 1258, 1585, 1995,
      2511, 3162, 3981, 5012, 6309, 7943, 10000>>

\* the table of the build
VolTab == IF voltab = 32 THEN VolTab32 ELSE VolTab21

\* the upper clamp taken to be the length of the table
VolLimitLength == voltab

\* the upper clamp of sidetonevolume: 31 (TeensyUSBAudioMidi/
\* TeensyUSBAudioMidi.cpp line 381), 20 (TeensyUSBAudioMidi.cpp line 143)
VolLimit == IF voltab = 32 THEN 31 ELSE 20

\* the amplitudes a read of VolTab[idx] can give: the entry, or whatever
\* lies next to the table when idx is outside it
VolValues(idx) ==
    IF idx \in 0..(voltab - 1) THEN {<<VolTab[idx + 1], 10000>>}
    ELSE {<<0, 10000>>, <<4321, 10000>>}

Levels == (0 - LevelMargin)..(31 + LevelMargin)
Speeds == 0..MaxSpeed

\* sidetonevolume(level): lines 373..384, and lines 135..145 of the loop
\* variant
SetSideToneVolume(level) ==
    LET low == IF level < 0 THEN 0 ELSE level
        idx == IF low > VolLimit THEN VolLimit ELSE low
    IN /\ volIndex' = idx
       /\ \E a \in VolValues(idx) : sine_level' = a

\* a call of sidetonevolume(level) from the decoder or the volume pot
sidetonevolume ==
    \E level \in Levels :
         /\ SetSideToneVolume(level)
         /\ sent' = << >>
         /\ op' = [name |-> "sidetonevolume", arg |-> level]
         /\ again' = (op = op')
         /\ UNCHANGED <<inq, arrived, pc, lsb_data, frequency, volume, speed,
                        lastSet, lastKind, cfgVars, potVars, mixVars>>

\* key(state): lines 351..358
key ==
    \E state \in KeyStates :
      /\ tone' = state
      /\ downs' = DownsAtKey(state)
      /\ sent' = IF midi_cw >= 0 /\ midi_chan >= 0
                 THEN << NoteOn(midi_chan, midi_cw, IF state # 0 THEN 127 ELSE 0) >>
                 ELSE << >>
      /\ op' = [name |-> "key", arg |-> state]
      /\ again' = FALSE
      /\ UNCHANGED <<inq, arrived, pc, lsb_data, frequency, sine_level, volume,
                     speed, lastSet, lastKind, cfgVars, potVars, volIndex>>
      /\ UNCHANGED <<windowindex, block_sidetone, blockSamples, upc, i,
                     inputs, block_inl, block_inr, tx, cycle, prevCycle, applied,
                     lastRead, relVars, muteVars>>

\* key() of the loop variant reporting a key-up as a note-on of velocity 0
keyLoopNoteOn ==
    \E state \in KeyStates :
      /\ tone' = state
      /\ downs' = DownsAtKey(state)
      /\ sent' = << NoteOn(midi_chan, midi_cw, IF state # 0 THEN 99 ELSE 0) >>
      /\ op' = [name |-> "key", arg |-> state]
      /\ again' = FALSE
      /\ UNCHANGED <<inq, arrived, pc, lsb_data, frequency, sine_level, volume,
                     speed, lastSet, lastKind, cfgVars, potVars, volIndex>>
      /\ UNCHANGED <<windowindex, block_sidetone, blockSamples, upc, i,
                     inputs, block_inl, block_inr, tx, cycle, prevCycle, applied,
                     lastRead, relVars, muteVars>>

\* key(state) of the loop variant: src/src/TeensyUSBAudioMidi.cpp lines
\* 110..120; OPTION_MIDI_CW_NOTE and OPTION_MIDI_CW_CHANNEL are the note and
\* the channel the build was configured with (midi_cw, midi_chan)
keyLoop ==
    \E state \in KeyStates :
      /\ tone' = state
      /\ downs' = DownsAtKey(state)
      /\ sent' = IF state # 0
                 THEN << NoteOn(midi_chan, midi_cw, 99) >>
                 ELSE << NoteOff(midi_chan, midi_cw, 0) >>
      /\ op' = [name |-> "key", arg |-> state]
      /\ again' = FALSE
      /\ UNCHANGED <<inq, arrived, pc, lsb_data, frequency, sine_level, volume,
                     speed, lastSet, lastKind, cfgVars, potVars, volIndex>>
      /\ UNCHANGED <<windowindex, block_sidetone, blockSamples, upc, i,
                     inputs, block_inl, block_inr, tx, cycle, prevCycle, applied,
                     lastRead, relVars, muteVars>>

\* a call of cwspeed(speed) from the keyer or the speed pot
SetSpeed ==
    \E s \in Speeds :
      /\ cwspeed(s)
      /\ op' = [name |-> "cwspeed", arg |-> s]
      /\ again' = (op = op')
      /\ UNCHANGED <<inq, arrived, pc, lsb_data, frequency, sine_level, volume,
                     lastSet, lastKind, cfgVars, potVars, volIndex, mixVars>>

Freqs == {f \in 0..MaxFreq : f % 10 = 0}

\* a call of sidetonefrequency(freq) from the decoder or the pitch pot
SetFrequency ==
    \E freq \in Freqs :
      /\ sidetonefrequency(freq)
      /\ op' = [name |-> "sidetonefrequency", arg |-> freq]
      /\ again' = (op = op')
      /\ UNCHANGED <<inq, arrived, pc, lsb_data, sine_level, volume, speed,
                     lastSet, lastKind, cfgVars, potVars, volIndex, mixVars>>

(***************************************************************************)
(* Analog inputs                                                           *)
(***************************************************************************)
\* the samples analogRead returns in SpecDenoise
Raws == {0, 1, 60, 990, 1023, 4095}

\* the half width of the dead band taken to be inclusive
DenoiseChangedInclusive(newval, midpoint) ==
    \/ newval >= midpoint + 600
    \/ (midpoint > 780 /\ newval <= midpoint - 600)

\* a new reading reported only two buckets away from the midpoint
DenoiseChangedWide(newval, midpoint) ==
    \/ newval > midpoint + 1560
    \/ (midpoint > 780 /\ newval < midpoint - 1560)

\* a new reading reported half a bucket away from the midpoint already
DenoiseChangedNarrow(newval, midpoint) ==
    \/ newval > midpoint + 390
    \/ (midpoint > 780 /\ newval < midpoint - 390)

\* the reading taken from the bucket above
ReadingAbove(newval) == (newval \div 780 + 1) % 256

\* the low pass without the clamp
LowPassUnclamped(value, raw) == ((15 * value) \div 16 + raw) % 65536

\* lines 225..226: the moving exponential average, stored in a uint16_t
LowPass(value, raw) ==
    LET newval == ((15 * value) \div 16 + raw) % 65536
    IN IF newval > 16368 THEN 16368 ELSE newval

\* line 229: midpoint of the interval of the reading old, a uint16_t
Midpoint(old) == (390 + 780 * old) % 65536

\* line 231: the test for a new reading, evaluated in int
DenoiseChanged(newval, midpoint) ==
    \/ newval > midpoint + 600
    \/ (midpoint > 780 /\ newval < midpoint - 600)

\* line 232: the new reading, stored in a uint8_t
Reading(newval) == (newval \div 780) % 256

\* analogDenoise(pin of line l, &Analog of l, &last of l): lines 179..237;
\* raw is what analogRead returns
analogDenoise(l, raw) ==
    IF pins[l] < 0
    THEN /\ dn' = [line |-> l, raw |-> -1, value |-> Analog[l], old |-> last[l],
                       ret |-> FALSE]
         /\ UNCHANGED <<Analog, last>>
    ELSE LET newval == LowPass(Analog[l], raw)
             chg == DenoiseChanged(newval, Midpoint(last[l]))
         IN /\ Analog' = [Analog EXCEPT ![l] = newval]
            /\ last' = IF chg THEN [last EXCEPT ![l] = Reading(newval)] ELSE last
            /\ dn' = [line |-> l, raw |-> raw, value |-> Analog[l], old |-> last[l],
                       ret |-> chg]

\* one call of analogDenoise on one of the lines
Denoise ==
    \E l \in Lines, raw \in Raws :
      /\ analogDenoise(l, raw)
      /\ UNCHANGED <<inq, arrived, pc, lsb_data, frequency, sine_level, volume,
                     speed, sent, lastSet, lastKind, cfgVars, volIndex, op, again,
                     dl1ycf, pins, last_analog_read, last_analog_line, millis,
                     elapsed, poll, mixVars>>

\* analogDenoise called over and over in a build with the pitch pot only
InitDenoise ==
    /\ inq = << >>
    /\ arrived = 0
    /\ pc = "idle"
    /\ InitParams
    /\ midi_chan = MY_TX_CHANNEL
    /\ midi_pitch = MY_FREQ_CTRL
    /\ midi_speed = MY_SPEED_CTRL
    /\ codec = "sgtl5000"
    /\ InitShield
    /\ dl1ycf = TRUE
    /\ pins = [l \in Lines |-> IF l = "sidefreq" THEN 14 ELSE -1]
    /\ Analog = [l \in Lines |-> 0]
    /\ last = [l \in Lines |-> 0]
    /\ last_analog_read = <<0, 0>>
    /\ last_analog_line = 0
    /\ millis = <<0, 0>>
    /\ elapsed = 0
    /\ dn = NoDenoise
    /\ poll = NoPoll
    /\ InitMixerIdle
    /\ blockSamples = 128

NextDenoise == Denoise

SpecDenoise == InitDenoise /\ [][NextDenoise]_vars

\* the controller after setup(), in the builds of Configs; the loop variant
\* (21-entry table) is explored for its sidetonevolume only
InitControl ==
    /\ inq = << >>
    /\ arrived = 0
    /\ pc = "idle"
    /\ InitParams
    /\ InitPotsIdle
    /\ \E c \in Configs :
         /\ midi_chan = c[1]
         /\ midi_pitch = c[2]
         /\ midi_speed = c[3]
         /\ codec = c[4]
    /\ midi_cw = MY_KEYDOWN_NOTE
    /\ midi_ptt = MY_CWPTT_NOTE
    /\ mute_on_ptt = MY_MUTE_OPTION
    /\ voltab \in {32, 21}
    /\ InitMixerIdle
    /\ blockSamples = 128

NextControl ==
    \/ sidetonevolume
    \/ voltab = 32 /\ key
    \/ voltab = 32 /\ ptt

SpecControl == InitControl /\ [][NextControl]_vars

\* key() and ptt() with every setting of their options: the mute option,
\* the two notes and the outbound channel each set or left at their defaults
InitPtt ==
    /\ inq = << >>
    /\ arrived = 0
    /\ pc = "idle"
    /\ InitParams
    /\ InitPotsIdle
    /\ midi_chan \in {MY_TX_CHANNEL, -1}
    /\ midi_pitch = MY_FREQ_CTRL
    /\ midi_speed = MY_SPEED_CTRL
    /\ codec = "sgtl5000"
    /\ midi_cw \in {MY_KEYDOWN_NOTE, -1}
    /\ midi_ptt \in {MY_CWPTT_NOTE, -1}
    /\ mute_on_ptt \in {MY_MUTE_OPTION, 0}
    /\ voltab = 32
    /\ InitMixerIdle
    /\ blockSamples = 128

NextPtt == key \/ ptt

SpecPtt == InitPtt /\ [][NextPtt]_vars

\* key() in both variants, with the side tone volume set in between; the
\* loop variant (21-entry table) has its note and channel compiled in, the
\* other one may have either left unconfigured
InitKey ==
    /\ inq = << >>
    /\ arrived = 0
    /\ pc = "idle"
    /\ InitParams
    /\ InitPotsIdle
    /\ voltab \in {32, 21}
    /\ midi_chan \in (IF voltab = 32 THEN {MY_TX_CHANNEL, -1} ELSE {MY_TX_CHANNEL})
    /\ midi_cw \in (IF voltab = 32 THEN {MY_KEYDOWN_NOTE, -1} ELSE {MY_KEYDOWN_NOTE})
    /\ midi_pitch = MY_FREQ_CTRL
    /\ midi_speed = MY_SPEED_CTRL
    /\ codec = "sgtl5000"
    /\ midi_ptt = MY_CWPTT_NOTE
    /\ mute_on_ptt = MY_MUTE_OPTION
    /\ InitMixerIdle
    /\ blockSamples = 128

NextKey ==
    \/ sidetonevolume
    \/ voltab = 32 /\ key
    \/ voltab = 21 /\ keyLoop

SpecKey == InitKey /\ [][NextKey]_vars

\* the levels passed to mastervolume, as fractions
MasterLevels == {<<0, 10>>, <<5, 10>>, <<10, 10>>}

\* mastervolume(level): lines 386..395
mastervolume(level) ==
    volume' = IF codec # "none" THEN level ELSE volume

\* a call of mastervolume(level) from the decoder or the volume pot
SetMasterVolume ==
    \E level \in MasterLevels :
      /\ mastervolume(level)
      /\ sent' = << >>
      /\ op' = [name |-> "mastervolume", arg |-> level]
      /\ again' = (op = op')
      /\ UNCHANGED <<inq, arrived, pc, lsb_data, frequency, sine_level, speed,
                     lastSet, lastKind, cfgVars, potVars, volIndex, mixVars>>

\* the arguments the setters are called with in SpecSetters
SetterFreqs == {600, 800}
SetterLevels == {-1, 0, 20, 33}
SetterSpeeds == {13, 20}

\* the four setters called in any order, repeated calls included
InitSetters == InitControl /\ voltab = 32

NextSetters ==
    \/ SetFrequency /\ op'.arg \in SetterFreqs
    \/ sidetonevolume /\ op'.arg \in SetterLevels
    \/ SetMasterVolume
    \/ SetSpeed /\ op'.arg \in SetterSpeeds

SpecSetters == InitSetters /\ [][NextSetters]_vars

(***************************************************************************)
(* pots(): the round robin over the four analog lines                      *)
(***************************************************************************)
\* the time, in milliseconds, the clock is followed for
MaxElapsed == 60

\* the advances of millis() from one pass of loop() to the next
TickSteps == {1, 6}

\* unsigned long values are pairs <<high, low>> of 16-bit halves
U32Add(a, n) ==
    LET lo == a[2] + n
    IN << (a[1] + lo \div 65536) % 65536, lo % 65536 >>

U32Less(a, b) == a[1] < b[1] \/ (a[1] = b[1] /\ a[2] < b[2])

U32Sub(a, b) ==
    LET lo == a[2] - b[2]
        borrow == IF lo < 0 THEN 1 ELSE 0
    IN << (a[1] - b[1] - borrow + 65536) % 65536, (lo + 65536) % 65536 >>

\* distance of a from b
Dist(a, b) == IF a >= b THEN a - b ELSE b - a

\* the values of millis() the model starts from: boot, and shortly before
\* the 32-bit counter wraps
StartTimes == { <<0, 0>>, <<65535, 65500>> }

\* the pin assignments: every line wired, two lines wired, none (the
\* defaults of the header)
PinConfigs ==
    { [l \in Lines |-> CASE l = "sidefreq" -> 14 [] l = "sidevol" -> 15
                          [] l = "mastervol" -> 16 [] l = "speed" -> 17],
      [l \in Lines |-> CASE l = "sidefreq" -> 14 [] l = "sidevol" -> -1
                          [] l = "mastervol" -> 16 [] l = "speed" -> -1],
      [l \in Lines |-> -1] }

\* the samples analogRead returns: 10 bits in the DL1YCF build, 12 bits
\* after analogReadRes(12) in the other
PotRaws == IF dl1ycf THEN {0, 1023} ELSE {0, 4095}

\* the line handled in slot k: the cases of the switch (lines 146..174),
\* the if chain (lines 249..301)
LineOf(k) ==
    IF k \notin 0..3 THEN "none"
    ELSE IF dl1ycf
         THEN << "sidefreq", "sidevol", "mastervol", "speed" >>[k + 1]
         ELSE << "mastervol", "sidevol", "sidefreq", "speed" >>[k + 1]

\* the setter a line drives
SetterOf(l) ==
    CASE l = "sidefreq" -> "sidetonefrequency"
      [] l = "sidevol" -> "sidetonevolume"
      [] l = "mastervol" -> "mastervolume"
      [] l = "speed" -> "cwspeed"

\* the last up to four slots handled
Push(recent, k) ==
    LET r == Append(recent, k) IN IF Len(r) > 4 THEN Tail(r) ELSE r

\* millis() of this pass is below the time of the last eligible pass
Wrapped == U32Less(millis', last_analog_read)

\* the time of the latest analog read, and the time from the read before it
\* to the latest, once this pass has read or not
ReadTime(read) == IF read THEN elapsed' ELSE poll.at
ReadGap(read) ==
    IF read /\ poll.at >= 0 THEN elapsed' - poll.at
    ELSE IF read THEN -1 ELSE poll.gap

\* pots() returns without calling a setter
NoSetter ==
    /\ sent' = << >>
    /\ UNCHANGED <<frequency, sine_level, volIndex, volume, speed>>

\* the calls of lines 149, 156, 163 and 170
PotSetDL1YCF(l, step) ==
    CASE l = "sidefreq" ->
           /\ sidetonefrequency(400 + 30 * step)
           /\ UNCHANGED <<sine_level, volIndex, volume, speed>>
      [] l = "sidevol" ->
           /\ SetSideToneVolume(step)
           /\ sent' = << >>
           /\ UNCHANGED <<frequency, volume, speed>>
      [] l = "mastervol" ->
           /\ mastervolume(<<step, 1>>)
           /\ sent' = << >>
           /\ UNCHANGED <<frequency, sine_level, volIndex, speed>>
      [] l = "speed" ->
           /\ cwspeed(10 + step)
           /\ UNCHANGED <<frequency, sine_level, volIndex, volume>>

\* the eligible branch of lines 144..175
PollDL1YCF(k) ==
    LET l == LineOf(k) IN
    /\ last_analog_line' = IF k = 3 THEN 0 ELSE k + 1
    /\ IF k \in 0..3 /\ pins[l] >= 0
       THEN \E raw \in PotRaws :
              /\ analogDenoise(l, raw)
              /\ IF dn'.ret THEN PotSetDL1YCF(l, last'[l]) ELSE NoSetter
              /\ poll' = [line |-> k, eligible |-> TRUE, reads |-> {pins[l]},
                          called |-> IF dn'.ret THEN SetterOf(l) ELSE "none",
                          recent |-> Push(poll.recent, k), wrapped |-> Wrapped,
                          at |-> ReadTime(TRUE), gap |-> ReadGap(TRUE)]
       ELSE /\ NoSetter
            /\ UNCHANGED <<Analog, last, dn>>
            /\ poll' = [line |-> k, eligible |-> TRUE, reads |-> {},
                        called |-> "none", recent |-> Push(poll.recent, k),
                        wrapped |-> Wrapped, at |-> ReadTime(FALSE),
                        gap |-> ReadGap(FALSE)]

\* a call of pots() that the rate limit turns away
PollSkipped ==
    /\ NoSetter
    /\ UNCHANGED <<Analog, last, dn, last_analog_line>>
    /\ poll' = [line |-> -1, eligible |-> FALSE, reads |-> {},
                called |-> "none", recent |-> poll.recent, wrapped |-> Wrapped,
                at |-> ReadTime(FALSE), gap |-> ReadGap(FALSE)]

\* pots() of the DL1YCF build: lines 134..177
PotsDL1YCF ==
    /\ dl1ycf
    /\ \E d \in TickSteps :
         LET now == U32Add(millis, d)
             lar == IF U32Less(now, last_analog_read) THEN now
                    ELSE last_analog_read
         IN /\ elapsed + d <= MaxElapsed
            /\ millis' = now
            /\ elapsed' = elapsed + d
            /\ IF U32Less(U32Add(lar, 5), now)
               THEN /\ last_analog_read' = now
                    /\ PollDL1YCF(last_analog_line)
               ELSE /\ last_analog_read' = lar
                    /\ PollSkipped
    /\ op' = [name |-> "pots", arg |-> 0]
    /\ again' = FALSE
    /\ UNCHANGED <<inq, arrived, pc, lsb_data, lastSet, lastKind, cfgVars,
                   dl1ycf, pins, mixVars>>

\* the change of the filtered value that makes a line call its setter:
\* lines 256, 268, 280 and 292
Threshold(l) ==
    CASE l = "mastervol" -> 64
      [] l = "sidevol" -> 256
      [] l = "sidefreq" -> 64
      [] l = "speed" -> 128

\* the calls of lines 257, 269, 281 and 293
PotSetStock(l, a) ==
    CASE l = "mastervol" ->
           /\ mastervolume(<<8191 - a, 8191>>)
           /\ sent' = << >>
           /\ UNCHANGED <<frequency, sine_level, volIndex, speed>>
      [] l = "sidevol" ->
           /\ SetSideToneVolume((8191 - a) \div 256)
           /\ sent' = << >>
           /\ UNCHANGED <<frequency, volume, speed>>
      [] l = "sidefreq" ->
           /\ sidetonefrequency((8191 - a) \div 8 + 250)
           /\ UNCHANGED <<sine_level, volIndex, volume, speed>>
      [] l = "speed" ->
           /\ cwspeed((8191 - a) \div 128 + 3)
           /\ UNCHANGED <<frequency, sine_level, volIndex, volume>>

\* the slot after slot k without the mask
NextLineUnmasked(k) == k + 1

\* line 305: the slot after slot k
NextLine(k) == (k + 1) % 4

\* the eligible branch of lines 247..305: the pin is read whatever its
\* value; what analogRead returns for a pin that is not wired is any sample
PollStock(k) ==
    LET l == LineOf(k) IN
    /\ last_analog_line' = NextLine(k)
    /\ UNCHANGED dn
    /\ IF k \in 0..3
       THEN \E raw \in PotRaws :
              LET a == (Analog[l] \div 2 + raw) % 65536
                  chg == Dist(a, last[l]) > Threshold(l)
              IN /\ Analog' = [Analog EXCEPT ![l] = a]
                 /\ last' = IF chg THEN [last EXCEPT ![l] = a] ELSE last
                 /\ IF chg THEN PotSetStock(l, a) ELSE NoSetter
                 /\ poll' = [line |-> k, eligible |-> TRUE, reads |-> {pins[l]},
                             called |-> IF chg THEN SetterOf(l) ELSE "none",
                             recent |-> Push(poll.recent, k),
                             wrapped |-> Wrapped, at |-> ReadTime(TRUE),
                             gap |-> ReadGap(TRUE)]
       ELSE /\ NoSetter
            /\ UNCHANGED <<Analog, last>>
            /\ poll' = [line |-> k, eligible |-> TRUE, reads |-> {},
                        called |-> "none", recent |-> Push(poll.recent, k),
                        wrapped |-> Wrapped, at |-> ReadTime(FALSE),
                        gap |-> ReadGap(FALSE)]

\* pots() of the other build: lines 241..307
PotsStock ==
    /\ ~dl1ycf
    /\ \E d \in TickSteps :
         LET m == U32Add(millis, d)
             since == U32Sub(m, last_analog_read)
         IN /\ elapsed + d <= MaxElapsed
            /\ millis' = m
            /\ elapsed' = elapsed + d
            /\ IF since[1] > 0 \/ since[2] > 10
               THEN /\ PollStock(last_analog_line)
                    /\ last_analog_read' = m
               ELSE /\ PollSkipped
                    /\ UNCHANGED last_analog_read
    /\ op' = [name |-> "pots", arg |-> 0]
    /\ again' = FALSE
    /\ UNCHANGED <<inq, arrived, pc, lsb_data, lastSet, lastKind, cfgVars,
                   dl1ycf, pins, mixVars>>

\* loop() calling pots() once per pass, millis() having advanced since the
\* pass before, in either build, with each pin assignment
InitPots ==
    /\ inq = << >>
    /\ arrived = 0
    /\ pc = "idle"
    /\ InitParams
    /\ midi_chan = MY_TX_CHANNEL
    /\ midi_pitch = MY_FREQ_CTRL
    /\ midi_speed = MY_SPEED_CTRL
    /\ codec = "sgtl5000"
    /\ InitShield
    /\ dl1ycf \in BOOLEAN
    /\ pins \in PinConfigs
    /\ Analog = [l \in Lines |-> 0]
    /\ last = [l \in Lines |-> 0]
    /\ millis \in StartTimes
    /\ last_analog_read = millis
    /\ last_analog_line = 0
    /\ elapsed = 0
    /\ dn = NoDenoise
    /\ poll = NoPoll
    /\ InitMixerIdle
    /\ blockSamples = 128

NextPots == PotsDL1YCF \/ PotsStock

SpecPots == InitPots /\ [][NextPots]_vars

\* the hang times, in milliseconds, passed to setHangTime
HangTimes == {0, 6, 10}

\* TeensyAudioTone::setHangTime(milliseconds), lines 50..53 of
\* TeensyAudioTone.h: stores the count and calls speed_set(13)
setHangTime ==
    \E ms \in HangTimes :
      /\ hangtime' = milliseconds2count(ms)
      /\ speed' = 13
      /\ op' = [name |-> "setHangTime", arg |-> ms]
      /\ again' = FALSE
      /\ UNCHANGED <<inq, arrived, pc, lsb_data, frequency, sine_level, volume,
                     sent, lastSet, lastKind, cfgVars, potVars, volIndex>>
      /\ UNCHANGED <<tone, windowindex, block_sidetone, blockSamples, upc, i,
                     inputs, block_inl, block_inr, tx, cycle, prevCycle, applied,
                     lastRead, relVars, mute, trail, downs>>

\* the speed and the hang time set in any order
InitHang ==
    /\ inq = << >>
    /\ arrived = 0
    /\ pc = "idle"
    /\ InitParams
    /\ InitPotsIdle
    /\ midi_chan = MY_TX_CHANNEL
    /\ midi_pitch = MY_FREQ_CTRL
    /\ midi_speed = MY_SPEED_CTRL
    /\ codec = "sgtl5000"
    /\ InitShield
    /\ InitMixerIdle
    /\ blockSamples = 128

NextHang == SetSpeed \/ setHangTime

SpecHang == InitHang /\ [][NextHang]_vars

\* cwspeed applied to every speed of Speeds, in the builds of Configs
InitSpeed == InitControl /\ voltab = 32

NextSpeed == SetSpeed

SpecSpeed == InitSpeed /\ [][NextSpeed]_vars

\* sidetonefrequency applied to every frequency of Freqs
InitPitch == InitControl /\ voltab = 32

NextPitch == SetFrequency

SpecPitch == InitPitch /\ [][NextPitch]_vars

(***************************************************************************)
(* Claims about the side tone mixer                                        *)
(***************************************************************************)
\* the step is one iteration of a sample loop of update()
IsSample == upc \in {"up", "down"} /\ i' = i + 1

\* gain a is at most gain b; a table coefficient w stands for w / 2^31,
\* "pass" for unity, "zero" for 0
GainLeq(a, b) ==
    \/ b.kind = "pass"
    \/ a.kind = "zero"
    \/ a.kind = "table" /\ b.kind = "table" /\ a.w <= b.w

\* C6: under every interleaving of key events with audio cycles, the tone
\* flag changing inside a cycle included, windowindex stays within 0..128
\* and every read of the window table uses an index within 0..127
C6_IndexInRange ==
    /\ windowindex \in 0..WINDOW_TABLE_LENGTH
    /\ lastRead.dir # "none" => lastRead.idx \in 0..(WINDOW_TABLE_LENGTH - 1)
    /\ applied.kind = "table" => applied.idx \in 0..(WINDOW_TABLE_LENGTH - 1)

\* C6 witness: a cycle that passed the test of line 73 with the key down and
\* windowindex 0 found the tone flag cleared at line 75: it is in the
\* ramp-down loop with nothing to ramp down and has written its first sample
C6_Witness ==
    /\ upc = "down"
    /\ tone = 0
    /\ i = 1
    /\ windowindex = 0
    /\ applied.kind = "zero"
    /\ applied.at = 0

\* C7: the envelope gain is monotone: the window table is non-decreasing,
\* in tone-active cycles the gain of successive samples never decreases and
\* is unity once windowindex has reached 128, and in ramp-down cycles the
\* gain of successive samples never increases
C7_GainMonotone ==
    [][/\ \A k \in 1..(WINDOW_TABLE_LENGTH - 1) : window_table[k] <= window_table[k + 1]
       /\ (IsSample /\ upc = "up" /\ applied.dir = "up") => GainLeq(applied, applied')
       /\ (IsSample /\ upc = "up" /\ windowindex = WINDOW_TABLE_LENGTH)
            => (applied'.kind = "pass" /\ applied'.out = applied'.in)
       /\ (IsSample /\ upc = "down" /\ applied.dir = "down") => GainLeq(applied', applied)]_vars

\* C7 witness: a ramp-up has gone through the whole table and the cycle is
\* passing the oscillator unattenuated
C7_Witness ==
    /\ upc = "up"
    /\ windowindex = WINDOW_TABLE_LENGTH
    /\ applied.kind = "pass"
    /\ applied.in = 32767
    /\ lastRead = [idx |-> WINDOW_TABLE_LENGTH - 1, dir |-> "up",
                   prevIdx |-> WINDOW_TABLE_LENGTH - 2, prevDir |-> "up"]

\* C8 as claimed: the gain applied to a sample processed at window index 0
\* (first sample of a ramp-up, last table sample of a ramp-down) is exactly
\* 0, and the gain applied at windowindex 128 is unity
C8_ZeroAtIndexZero ==
    /\ (applied.kind = "table" /\ applied.idx = 0) => (applied.w = 0 /\ applied.out = 0)
    /\ (applied.dir = "up" /\ applied.at = WINDOW_TABLE_LENGTH) => applied.out = applied.in

\* C8 amended: at table index 0 the gain is the first coefficient,
\* 318397 / 2^31, which is not 0 (a full-scale sample comes out as 4 or -5);
\* the gain is exactly 0 only for ramp-down samples processed once
\* windowindex is 0; at windowindex 128 a tone cycle applies unity
C8_NearZeroAtIndexZero ==
    /\ (applied.kind = "table" /\ applied.idx = 0)
         => /\ applied.w = 318397
            /\ applied.in = 0 => applied.out = 0
            /\ applied.in = 32767 => applied.out = 4
            /\ applied.in = -32767 => applied.out = -5
    /\ (applied.dir = "down" /\ applied.at = 0) => (applied.kind = "zero" /\ applied.out = 0)
    /\ (applied.dir = "up" /\ applied.at = WINDOW_TABLE_LENGTH)
         => (applied.kind = "pass" /\ applied.out = applied.in)

\* C8 witness: the first sample of a ramp-up, a full-scale one, has been
\* scaled by the coefficient of index 0
C8_Witness ==
    /\ upc = "up"
    /\ i = 1
    /\ applied.kind = "table"
    /\ applied.idx = 0
    /\ applied.in = 32767
    /\ applied.out = 4

\* C9: when the tone flag flips while a ramp is incomplete, the next cycle
\* carries on from the current windowindex (it moves by single steps, it is
\* never reset to 0 or 128), and the first coefficient applied after the
\* reversal has an index at most 1 away from the last one applied before it
C9_ContinuousReversal ==
    [][/\ (windowindex > 0 /\ windowindex < WINDOW_TABLE_LENGTH)
            => (windowindex' - windowindex) \in {-1, 0, 1}
       /\ (lastRead'.prevDir \notin {"none", lastRead'.dir})
            => (lastRead'.idx - lastRead'.prevIdx) \in {-1, 0, 1}]_vars

\* C9 witness: key-up during a ramp-up that had not finished, the ramp-down
\* has just applied its first coefficient
C9_Witness ==
    /\ upc = "down"
    /\ i = 1
    /\ lastRead.dir = "down"
    /\ lastRead.prevDir = "up"
    /\ lastRead.idx < WINDOW_TABLE_LENGTH - 1
    /\ windowindex > 0

\* C10: with no tone block on input 2, update() skips the cycle: nothing is
\* transmitted, the tone flag and windowindex keep their values, update()
\* is over; a later cycle with a tone block goes on to line 73
C10_SkipWithoutSine ==
    [][/\ (upc = "begin" /\ upc' # "begin" /\ ~inputs.sine)
            => /\ upc' = "idle"
               /\ tx' = << >>
               /\ UNCHANGED <<tone, windowindex>>
       /\ (upc = "begin" /\ upc' # "begin" /\ inputs.sine /\ cycle = "nosine")
            => upc' = "test"]_vars

\* C10 witness: a cycle was skipped for want of the tone block in the
\* middle of a ramp, and the next cycle has sent the side tone to both outputs
C10_Witness ==
    /\ prevCycle = "nosine"
    /\ cycle = "tone"
    /\ upc = "idle"
    /\ tx = << <<"sidetone", 0>>, <<"sidetone", 1>> >>
    /\ windowindex \in 1..(WINDOW_TABLE_LENGTH - 1)

\* update() has returned and the record of its latest call is complete
Returned == upc = "idle" /\ cycle # "none"

\* the blocks of transmission list t sent on channel ch
OnChannel(t, ch) == {k \in 1..Len(t) : t[k][2] = ch}

\* C11 as claimed: in every invocation of update(), whichever way it
\* returns, each block that was pending on an input has been received (none
\* is left on the input) and released exactly once
C11_ReleasedOnce ==
    Returned =>
        \A k \in {"sine", "inl", "inr"} :
            /\ ~inputs[k]
            /\ released[k] = IF offered[k] THEN 1 ELSE 0

\* C12 as claimed: every cycle that finds the tone block on input 2
\* transmits exactly one block on output 0 and one on output 1
C12_OneBlockPerChannel ==
    (Returned /\ offered.sine /\ cycle # "nomem")
        => /\ Cardinality(OnChannel(tx, 0)) = 1
           /\ Cardinality(OnChannel(tx, 1)) = 1

\* C12 amended: a cycle that has block_sidetone and finds the tone block
\* ends in the tone/ramp branch or in the pass-through branch; the tone/ramp
\* branch transmits the side tone block once on each output; the
\* pass-through branch transmits on output 0 exactly when a left block was
\* pending and on output 1 exactly when a right block was pending
C12_ForwardsPresent ==
    (Returned /\ offered.sine /\ cycle # "nomem")
        => /\ cycle \in {"tone", "pass"}
           /\ cycle = "tone" => tx = << <<"sidetone", 0>>, <<"sidetone", 1>> >>
           /\ cycle = "pass"
                => /\ Cardinality(OnChannel(tx, 0)) = (IF offered.inl THEN 1 ELSE 0)
                   /\ Cardinality(OnChannel(tx, 1)) = (IF offered.inr THEN 1 ELSE 0)

\* C12 witness: a pass-through cycle that had the tone block and a right
\* block but no left block has transmitted on output 1 only
C12_Witness ==
    /\ upc = "idle"
    /\ cycle = "pass"
    /\ offered = [sine |-> TRUE, inl |-> FALSE, inr |-> TRUE]
    /\ tx = << <<"inr", 1>> >>

\* C13: a cycle that reaches line 73 with the tone off and windowindex 0 is
\* a pass-through cycle: it hands the left input block itself to output 0
\* and the right input block itself to output 1, nothing else, and leaves
\* windowindex at 0
C13_PassThrough ==
    (Returned /\ cycle = "pass")
        => /\ windowindex = 0
           /\ offered.inl => (\E k \in 1..Len(tx) : tx[k] = <<"inl", 0>>)
           /\ offered.inr => (\E k \in 1..Len(tx) : tx[k] = <<"inr", 1>>)
           /\ \A k \in 1..Len(tx) : tx[k] \in {<<"inl", 0>>, <<"inr", 1>>}
           /\ Len(tx) <= 2

\* C13 witness: a pass-through cycle with both input blocks has sent them on
\* and left windowindex at 0
C13_Witness ==
    /\ upc = "idle"
    /\ cycle = "pass"
    /\ offered = [sine |-> TRUE, inl |-> TRUE, inr |-> TRUE]
    /\ tx = << <<"inl", 0>>, <<"inr", 1>> >>
    /\ windowindex = 0
    /\ tone = 0

\* no block of transmission list t is a pass-through input block
Silent(t) == \A k \in 1..Len(t) : t[k][1] \notin {"inl", "inr"}

\* C14 as claimed: while the mute flag is set (ptt(active) in a build with
\* mute on PTT), a pass-through cycle sends no input audio on, and a
\* tone/ramp cycle still sends the side tone block to both outputs
C14_MuteSilencesAudio ==
    [][(upc # "idle" /\ upc' = "idle" /\ mute # 0)
         => /\ cycle' = "pass" => Silent(tx')
            /\ cycle' = "tone" => tx' = << <<"sidetone", 0>>, <<"sidetone", 1>> >>]_vars

\* C15 as claimed: once the mute flag is cleared, the pass-through cycles
\* among the next hangtime calls of update() send no input audio on, and
\* pass-through is back from the call after them
C15_TrailingMute ==
    [][(upc # "idle" /\ upc' = "idle" /\ cycle' = "pass" /\ mute = 0
          /\ trail < MaxTrail)
         => IF trail < hangtime
            THEN Silent(tx')
            ELSE /\ Cardinality(OnChannel(tx', 0)) = (IF block_inl THEN 1 ELSE 0)
                 /\ Cardinality(OnChannel(tx', 1)) = (IF block_inr THEN 1 ELSE 0)]_vars

(***************************************************************************)
(* Claims about the parameter controller                                   *)
(***************************************************************************)
\* the outbound messages are enabled for controller or note n
Enabled(n) == n >= 0 /\ midi_chan >= 0

\* C16 as claimed: key(down) sets the tone flag of the mixer unless the side
\* tone volume is below the near-zero threshold (an amplitude of 0 is below
\* any such threshold): then the tone flag is not switched on; the key
\* notification goes out either way
C16_KeySuppressed ==
    [][/\ (tone = 0 /\ tone' # 0) => sine_level[1] > 0
       /\ (op'.name = "key" /\ op'.arg # 0 /\ sine_level[1] > 0) => tone' # 0
       /\ (op'.name = "key" /\ op' # op /\ Enabled(midi_cw))
            => sent' = << NoteOn(midi_chan, midi_cw, IF op'.arg # 0 THEN 127 ELSE 0) >>]_vars

\* C17: sidetonevolume(level) reads VolTab at level clamped to 0..K, K = 31
\* for the 32-entry table and 20 for the 21-entry table: always an index
\* of the table
C17_VolumeClamped ==
    op.name = "sidetonevolume"
        => /\ volIndex \in 0..(voltab - 1)
           /\ op.arg < 0 => volIndex = 0
           /\ op.arg \in 0..(voltab - 1) => volIndex = op.arg
           /\ op.arg > voltab - 1 => volIndex = voltab - 1
           /\ voltab - 1 = (IF voltab = 32 THEN 31 ELSE 20)

\* C17 witness: the 21-entry build was asked for level 31 and read entry 20
C17_Witness ==
    /\ op = [name |-> "sidetonevolume", arg |-> 31]
    /\ voltab = 21
    /\ volIndex = 20

\* C18: volume step 0 (or below) gives the amplitude 0.000 exactly, the
\* maximum step (or above) the amplitude 1.000 exactly
C18_VolumeEnds ==
    op.name = "sidetonevolume"
        => /\ op.arg <= 0 => sine_level = <<0, 10000>>
           /\ op.arg >= voltab - 1 => sine_level = <<10000, 10000>>

\* C18 witness: step 0 of the 32-entry table has silenced the side tone
C18_Witness ==
    /\ op = [name |-> "sidetonevolume", arg |-> 0]
    /\ voltab = 32
    /\ volIndex = 0
    /\ sine_level = <<0, 10000>>

\* the wire value of the latest outbound message
WireValue == sent[1].val

\* C19 as claimed: with reporting enabled, cwspeed(speed) reports
\* (127 * speed - 97) / 59 rounded to the nearest integer, clamped to 0..127
C19_SpeedRounded ==
    (op.name = "cwspeed" /\ Enabled(midi_speed))
        => /\ Len(sent) = 1
           /\ WireValue = Clamp127(RoundDiv(127 * op.arg - 97, 59))

\* C19 amended: with reporting enabled, cwspeed(speed) reports
\* (127 * speed - 97) / 59 with the fraction dropped (the division of C,
\* truncating toward zero), clamped to 0..127
C19_SpeedTruncated ==
    (op.name = "cwspeed" /\ Enabled(midi_speed))
        => LET n == 127 * op.arg - 97 IN
           /\ speed = op.arg
           /\ Len(sent) = 1
           /\ sent[1].ctl = midi_speed /\ sent[1].chan = midi_chan
           /\ n < 59 => WireValue = 0
           /\ n >= 127 * 59 => WireValue = 127
           /\ (n >= 0 /\ n < 128 * 59)
                => (59 * WireValue <= n /\ n < 59 * (WireValue + 1))

\* C19 witness: speed 3, where 284 / 59 = 4.81, has been reported as 4
C19_Witness ==
    /\ op = [name |-> "cwspeed", arg |-> 3]
    /\ Enabled(midi_speed)
    /\ sent = << [ctl |-> midi_speed, val |-> 4, chan |-> midi_chan] >>

\* C20 as claimed: with reporting enabled, cwspeed(20) emits a speed
\* report with wire value 39
C20_Speed20Is39 ==
    (op = [name |-> "cwspeed", arg |-> 20] /\ Enabled(midi_speed))
        => (Len(sent) = 1 /\ WireValue = 39)

\* C20 amended: with reporting enabled, cwspeed(20) emits a speed report
\* with wire value 41 (2443 / 59 = 41.4)
C20_Speed20Is41 ==
    (op = [name |-> "cwspeed", arg |-> 20] /\ Enabled(midi_speed))
        => sent = << [ctl |-> midi_speed, val |-> 41, chan |-> midi_chan] >>

\* C20 witness: the report of speed 20 has gone out on the speed controller
C20_Witness ==
    /\ op = [name |-> "cwspeed", arg |-> 20]
    /\ speed = 20
    /\ Len(sent) = 1
    /\ sent[1].ctl = MY_SPEED_CTRL
    /\ sent[1].val = 41

\* C21 as claimed: with reporting enabled, sidetonefrequency(freq) reports
\* (127 * freq - 50500) / 600 rounded to the nearest integer, clamped to
\* 0..127
C21_PitchRounded ==
    (op.name = "sidetonefrequency" /\ Enabled(midi_pitch))
        => /\ Len(sent) = 1
           /\ WireValue = Clamp127(RoundDiv(127 * op.arg - 50500, 600))

\* C21 amended: with reporting enabled, sidetonefrequency(freq) reports
\* (127 * freq - 50500) / 600 with the fraction dropped (the division of C,
\* truncating toward zero), clamped to 0..127
C21_PitchTruncated ==
    (op.name = "sidetonefrequency" /\ Enabled(midi_pitch))
        => LET n == 127 * op.arg - 50500 IN
           /\ frequency = op.arg
           /\ Len(sent) = 1
           /\ sent[1].ctl = midi_pitch /\ sent[1].chan = midi_chan
           /\ n < 600 => WireValue = 0
           /\ n >= 127 * 600 => WireValue = 127
           /\ (n >= 0 /\ n < 128 * 600)
                => (600 * WireValue <= n /\ n < 600 * (WireValue + 1))

\* C21 witness: 430 Hz, where 4110 / 600 = 6.85, has been reported as 6
C21_Witness ==
    /\ op = [name |-> "sidetonefrequency", arg |-> 430]
    /\ Enabled(midi_pitch)
    /\ sent = << [ctl |-> midi_pitch, val |-> 6, chan |-> midi_chan] >>

(***************************************************************************)
(* Claims about the analog inputs                                          *)
(***************************************************************************)
\* the latest call of analogDenoise was on an enabled line and read a sample
Sampled == dn.line # "none" /\ dn.raw >= 0

\* C22: a call of analogDenoise that leaves the filtered value inside the
\* band of 600 around the midpoint of the reported step returns false and
\* leaves the reported step as it was: no sequence of such samples changes it
C22_StableInBand ==
    (Sampled /\ Dist(Analog[dn.line], Midpoint(dn.old)) <= 600)
        => (~dn.ret /\ last[dn.line] = dn.old)

\* C22 witness: after step 1 had been reported, a sample moved the filtered
\* value inside the band and nothing was reported
C22_Witness ==
    /\ Sampled
    /\ dn.old = 1
    /\ Analog[dn.line] # dn.value
    /\ Dist(Analog[dn.line], Midpoint(1)) > 390
    /\ ~dn.ret
    /\ last[dn.line] = 1

\* C23: when analogDenoise returns true the new step differs from the one
\* reported before, the filtered value is within 390 of the midpoint of the
\* new step, and no filtered value within 210 of it would be reported
C23_OncePerCrossing ==
    (Sampled /\ dn.ret)
        => /\ last[dn.line] # dn.old
           /\ Dist(Analog[dn.line], Midpoint(last[dn.line])) <= 390
           /\ \A v \in (Analog[dn.line] - 210)..(Analog[dn.line] + 210) :
                  v \in 0..16368 => ~DenoiseChanged(v, Midpoint(last[dn.line]))

\* C23 witness: the first sample, 1023, crossed into bucket 1 and was reported
C23_Witness ==
    /\ dn = [line |-> "sidefreq", raw |-> 1023, value |-> 0, old |-> 0, ret |-> TRUE]
    /\ Analog["sidefreq"] = 1023
    /\ last["sidefreq"] = 1

C30_FilterRange ==
    /\ \A l \in Lines : Analog[l] \in 0..16368 /\ last[l] \in 0..20
    /\ Sampled =>
          LET sum == (15 * dn.value) \div 16 + dn.raw IN
          /\ Analog[dn.line] = IF sum > 16368 THEN 16368 ELSE sum
          /\ sum < 65536
          /\ 390 + 780 * last[dn.line] + 600 < 65536

\* C30 witness: a sample of 4095 on top of a high filtered value was clamped
\* to 16368, step 20
C30_Witness ==
    /\ Sampled
    /\ dn.raw = 4095
    /\ (15 * dn.value) \div 16 + dn.raw > 16368
    /\ Analog[dn.line] = 16368
    /\ last[dn.line] = 20

\* C24: a line whose pin is negative is never read, never calls its setter,
\* and keeps its filtered value and its last step, in both builds
C24_DisabledUntouched ==
    \A l \in Lines :
        pins[l] < 0 =>
            /\ pins[l] \notin poll.reads
            /\ poll.called # SetterOf(l)
            /\ Analog[l] = 0
            /\ last[l] = 0

\* C25: the slot index stays within 0..3; a call of pots() that passes the
\* rate limit handles one slot, reads at most the pin of that slot, calls at
\* most its setter and moves the index to the next slot; the slots handled
\* follow one another cyclically, and four handled in a row are the four
\* slots
C25_RoundRobin ==
    LET recent == poll.recent
        n == Len(recent)
    IN /\ last_analog_line \in 0..3
       /\ last_analog_line = IF n = 0 THEN 0 ELSE (recent[n] + 1) % 4
       /\ poll.eligible =>
             /\ poll.line \in 0..3
             /\ n > 0 /\ recent[n] = poll.line
             /\ poll.reads \subseteq {pins[LineOf(poll.line)]}
             /\ poll.called \in {"none", SetterOf(LineOf(poll.line))}
       /\ ~poll.eligible => poll.reads = {} /\ poll.called = "none"
       /\ \A k \in 1..(n - 1) : recent[k + 1] = (recent[k] + 1) % 4
       /\ n = 4 => {recent[k] : k \in 1..4} = 0..3

\* C25 witness: in the build without the denoiser five polls passed the rate
\* limit; the last four handled slots 1, 2, 3 and 0
C25_Witness ==
    /\ ~dl1ycf
    /\ poll.eligible
    /\ poll.recent = <<1, 2, 3, 0>>
    /\ last_analog_line = 1

(***************************************************************************)
(* Claims about the setters and the PTT line                               *)
(***************************************************************************)
\* the names of the parameter setters
Setters == {"sidetonefrequency", "sidetonevolume", "mastervolume", "cwspeed"}

\* C26: a setter called a second time in succession with the same argument
\* leaves frequency, amplitude, master volume and speed as the first call
\* left them
C26_SettersIdempotent ==
    [][(again' /\ op'.name \in Setters)
          => UNCHANGED <<frequency, sine_level, volume, speed>>]_vars

\* C26 witness: cwspeed(20) was called twice in succession
C26_Witness ==
    /\ again
    /\ op = [name |-> "cwspeed", arg |-> 20]
    /\ speed = 20

C28_SpeedOnlyBySpeedOp ==
    [][/\ speed' # speed => op'.name = "cwspeed"
       /\ op'.name = "setHangTime" =>
             UNCHANGED <<frequency, sine_level, volume, speed, sent>>]_vars

(***************************************************************************)
(* Further claims about the analog inputs                                  *)
(***************************************************************************)
\* C39: after every call of analogDenoise on an enabled line the reported
\* step is the bucket of the filtered value or a neighbour of it
C39_StepLagsByOne ==
    Sampled => Dist(Analog[dn.line] \div 780, last[dn.line]) <= 1

\* C39 witness: a sample left the filtered value in the bucket above the
\* reported step without a report
C39_Witness ==
    /\ Sampled
    /\ ~dn.ret
    /\ Analog[dn.line] \div 780 = last[dn.line] + 1
    /\ last[dn.line] >= 1

\* C31: two consecutive analog reads of pots() are more than 5 ms apart,
\* more than 10 ms in the build without the denoiser, wherever the polls
\* fall, the wraparound of millis() included
C31_RateLimited ==
    poll.gap >= 0 => poll.gap > (IF dl1ycf THEN 5 ELSE 10)

\* C32: a pass of pots() that finds millis() below last_analog_read handles
\* a slot in that pass
C32_WrapTriggersRead ==
    (op.name = "pots" /\ poll.wrapped) => poll.eligible

\* C33: the level handed to the codec as master volume, a fraction
\* <<numerator, denominator>>, is within 0.0 .. 1.0
C33_MasterVolumeInRange ==
    /\ volume[1] >= 0
    /\ volume[1] <= volume[2]

(***************************************************************************)
(* Further claims about the side tone mixer                                *)
(***************************************************************************)
\* the step is taken inside update(), between its entry and its return
InUpdate == upc \in {"begin", "test", "branch", "up", "down"}

\* C34: the tone flag changes only in a step of setTone, which leaves
\* windowindex alone; windowindex changes only in a step inside update(),
\* which leaves the tone flag alone
C34_SingleWriter ==
    [][/\ tone' # tone => (setTone /\ windowindex' = windowindex)
       /\ windowindex' # windowindex => (InUpdate /\ tone' = tone)
       /\ (upc' # upc \/ i' # i) => tone' = tone]_vars

\* C34 witness: the key went down and update() is part way up the ramp
C34_Witness ==
    /\ tone = 1
    /\ upc = "up"
    /\ windowindex = 5

\* C38: with 128 samples per block windowindex is 0 or 128 whenever
\* update() is not running, and every sample of a cycle is produced in the
\* direction the cycle started in
C38_RampWithinCycle ==
    blockSamples = WINDOW_TABLE_LENGTH =>
        /\ upc = "idle" => windowindex \in {0, WINDOW_TABLE_LENGTH}
        /\ upc \in {"up", "down"} /\ i > 0 => applied.dir = upc

\* C38 witness: a ramp down that started at 128 has reached 0 at the end of
\* its cycle
C38_Witness ==
    /\ blockSamples = WINDOW_TABLE_LENGTH
    /\ upc = "idle"
    /\ cycle = "tone"
    /\ applied.kind = "table"
    /\ applied.dir = "down"
    /\ windowindex = 0

\* C36: a cycle that finds the tone on or windowindex non-zero at line 73
\* sends the one side tone block to output 0 and to output 1 and no input
\* block to either; each of its samples is made from the tone sample alone;
\* the input blocks that were pending are released all the same
C36_ToneReplacesAudio ==
    /\ (Returned /\ cycle = "tone")
          => /\ tx = << <<"sidetone", 0>>, <<"sidetone", 1>> >>
             /\ applied.out = CASE applied.kind = "table" ->
                                     ScaleSample(applied.in, applied.w)
                                 [] applied.kind = "pass" -> applied.in
                                 [] OTHER -> 0
             /\ released.sine = 1
             /\ released.inl = (IF offered.inl THEN 1 ELSE 0)
             /\ released.inr = (IF offered.inr THEN 1 ELSE 0)
    /\ upc \in {"branch", "up", "down"} => tx = << >>

\* C36 witness: a tone cycle that had both pass-through blocks pending sent
\* the side tone on both outputs and released the three blocks
C36_Witness ==
    /\ upc = "idle"
    /\ cycle = "tone"
    /\ offered = [sine |-> TRUE, inl |-> TRUE, inr |-> TRUE]
    /\ released = [sine |-> 1, inl |-> 1, inr |-> 1]
    /\ tx = << <<"sidetone", 0>>, <<"sidetone", 1>> >>

\* the cycles a ramp-down takes at most: ceil(128 / block length)
RampCycles == (WINDOW_TABLE_LENGTH + blockSamples - 1) \div blockSamples

\* C37: once that many cycles have completed with the key up throughout,
\* windowindex is 0 and stays 0, and update() takes the pass-through branch
\* in every further cycle until a key-down; in a ramp-down loop every sample
\* produced with windowindex at 0 is 0
C37_RampDownEnds ==
    /\ downs >= RampCycles
          => /\ tone = 0
             /\ windowindex = 0
             /\ upc \in {"idle", "begin", "test"}
    /\ (Returned /\ downs > RampCycles /\ cycle \in {"tone", "pass"})
          => cycle = "pass"
    /\ (upc = "down" /\ i > 0 /\ applied.at = 0)
          => applied.kind = "zero" /\ applied.out = 0 /\ windowindex = 0

\* C37 witness: with 48 samples per block the third cycle with the key up
\* has brought windowindex from 32 down to 0, its last samples being 0
C37_Witness ==
    /\ blockSamples = 48
    /\ upc = "idle"
    /\ cycle = "tone"
    /\ downs = 3
    /\ applied.kind = "zero"
    /\ lastRead.idx = 0 /\ lastRead.dir = "down"
    /\ windowindex = 0

\* ---------------------------------------------------------------------
\* Claims about the key and the inbound queue
\* ---------------------------------------------------------------------

\* the key note and the outbound channel are both configured
KeyConfigured == midi_cw >= 0 /\ midi_chan >= 0

\* C35 as stated: after every key(state) the tone flag is state and the
\* messages sent by the call are exactly one note-on of the key note with
\* velocity 127 (down) or 0 (up) when note and channel are configured, and
\* none otherwise
C35_KeyNoteOn ==
    op.name = "key" =>
      /\ tone = op.arg
      /\ sent = IF KeyConfigured
                THEN << NoteOn(midi_chan, midi_cw, IF op.arg # 0 THEN 127 ELSE 0) >>
                ELSE << >>

\* C35 by variant: after every key(state) the tone flag is state; where
\* note and channel are configured the call has sent exactly one message
\* of the key note, otherwise none; the message is a note-on of velocity
\* 127 (down) or 0 (up) in the variant with run-time options, and a note-on
\* of velocity 99 (down) or a note-off of velocity 0 (up) in the loop
\* variant
C35_KeyMessageByVariant ==
    op.name = "key" =>
      /\ tone = op.arg
      /\ Len(sent) = (IF KeyConfigured THEN 1 ELSE 0)
      /\ KeyConfigured =>
            /\ sent[1].chan = midi_chan
            /\ sent[1].d1 = midi_cw
            /\ sent[1].type = (IF voltab = 21 /\ op.arg = 0 THEN "NoteOff" ELSE "NoteOn")
            /\ sent[1].d2 = (IF op.arg = 0 THEN 0 ELSE IF voltab = 21 THEN 99 ELSE 127)

\* C35 witness: a key-up of the loop variant has sent its note-off while
\* the side tone volume is at step 0
C35_Witness ==
    /\ op = [name |-> "key", arg |-> 0]
    /\ voltab = 21
    /\ tone = 0
    /\ volIndex = 0
    /\ sent = << NoteOff(MY_TX_CHANNEL, MY_KEYDOWN_NOTE, 0) >>

\* C40: while midi() runs and the host sends nothing, every step of it
\* either takes the oldest pending message off the queue, whatever its
\* type and channel, and stays in the loop, or, with the queue empty,
\* returns; midi() is never stuck. The queue gets shorter by one with every
\* iteration, so a call that found n messages returns after n iterations
\* with the queue empty
C40_DrainsInOrder ==
    [][(pc = "midi" /\ arrived' = arrived)
         => /\ ENABLED (MidiRead \/ MidiReturn)
            /\ IF inq # << >>
               THEN /\ inq' = Tail(inq)
                    /\ lastKind' = Kind(Head(inq))
                    /\ pc' = "midi"
               ELSE /\ inq' = << >>
                    /\ pc' = "idle"]_vars

\* C40 witness: midi() has returned with the queue empty after the host
\* sent three messages, the last of them not a recognized command
C40_Witness ==
    /\ pc = "idle"
    /\ arrived = 3
    /\ inq = << >>
    /\ lastKind = "ignored"

====
